---- MODULE Spec2Model ----
(***************************************************************************)
(* OAuth2 client-credentials token caching decorator                       *)
(* (clientcredentials.Client over a groupcache group).                     *)
(*                                                                         *)
(* Callers invoke Client.DoWithOutput concurrently.  Each call resolves    *)
(* the client identity, obtains a token through the keyed cache (which     *)
(* collapses concurrent loads of one key into a single run of the Getter), *)
(* sends the decorated request and, on a bad-token status, removes a cache *)
(* key.  Time is counted in whole seconds.                                 *)
(***************************************************************************)
EXTENDS Integers, FiniteSets, Sequences, TLC

\* ------------------------------------------------------------------ bounds
NCallers == 2
MaxCalls == 3
MaxTime  == 2
MaxRevocations == 1
NHeaderCallers == 1
MaxExpiresIn == 12

\* ------------------------------------------------------- program constants
DefaultSoftExpire == 10
StatusOK          == 200
StatusUnauthorized == 401
HTTPStatusOkMin    == 200
HTTPStatusOkMax    == 299

Callers == 1..NCallers

\* Options.ClientID / Options.ClientSecret of the modelled client.
StaticClientID     == "a"
StaticClientSecret == "sa"

\* Client ids known to the token endpoint, each with its registered secret.
Ids == {"a", "b"}
Registered(id) == IF id = "a" THEN "sa" ELSE IF id = "b" THEN "sb" ELSE "none"

\* Cache keys: a resolved client id, which is empty when a header is missing
\* and fallback is disabled.
Keys == {"", "a", "b"}

NoToken == [id |-> "", gen |-> -1]

NoResponse == 0
Nil == "nil"

VARIABLES
    opt,         \* the Options value handed to New
    options,     \* Client.options: the Options after New applied its defaults
    expireIn,    \* expires_in the token endpoint declares (0: field absent)
    now,         \* wall clock, seconds
    gen,         \* per client id: generation of the token currently valid
    cache,       \* the group's entries, by key
    flight,      \* the group's in-flight load, by key
    call,        \* per caller: the registers of its current DoWithOutput call
    tokenCount,  \* per client id: requests the token endpoint has received
    serverCount, \* requests the resource server has received
    calls,       \* DoWithOutput calls started so far
    exchanges,   \* token exchanges answered with a token, token exchanges lost in
                 \* transport, resource requests lost in transport
    disturbed,   \* per key: the first token of the key expired, was removed, or a load failed
    tokenResponse, \* the token endpoint's HTTP response the last fetch read (status, body)
    tokenInfo    \* the tokenInfo and error the last fetch returned

vars == <<opt, options, expireIn, now, gen, cache, flight, call,
          tokenCount, serverCount, calls, exchanges, disturbed,
          tokenResponse, tokenInfo>>

\* ------------------------------------------------------------ construction

\* New: switch options.SoftExpireInSeconds { case 0: 10; case -1: 0 }.
NewSoftExpire_Mutant(s) == IF s = -1 THEN 0 ELSE s

NewSoftExpire(s) == IF s = 0 THEN DefaultSoftExpire ELSE IF s = -1 THEN 0 ELSE s

New(o) == [o EXCEPT !.SoftExpireInSeconds = NewSoftExpire(@)]

\* DefaultBadTokenStatusFunc: installed by New when IsBadTokenStatus is nil.
DefaultBadTokenStatusFunc_ClientErrors(status) == status >= 400 /\ status < 500

DefaultBadTokenStatusFunc(status) == status = StatusUnauthorized

IsBadTokenStatus(status) == DefaultBadTokenStatusFunc(status)

\* Configurations explored: <<SoftExpireInSeconds, expires_in of the token
\* endpoint>>, and the header-resolution switches.
Lifetimes == { <<0, 12>>, <<0, 0>>, <<-1, 1>>, <<2, 3>> }

RawOptions ==
    { o \in [ SoftExpireInSeconds : { p[1] : p \in Lifetimes },
              GetCredentialsFromRequestHeader : BOOLEAN,
              DontFallbackToStatic : BOOLEAN,
              ForwardHeaderClientSecret : {FALSE},
              PreventForwardingHeaderClientID : {FALSE} ] :
        o.DontFallbackToStatic => o.GetCredentialsFromRequestHeader }

\* Configurations explored for the handling of the request: every setting of
\* the header-resolution and header-forwarding switches, soft expire off.
HeaderRawOptions ==
    { o \in [ SoftExpireInSeconds : {-1},
              GetCredentialsFromRequestHeader : BOOLEAN,
              DontFallbackToStatic : BOOLEAN,
              ForwardHeaderClientSecret : BOOLEAN,
              PreventForwardingHeaderClientID : BOOLEAN ] :
        o.DontFallbackToStatic => o.GetCredentialsFromRequestHeader }

\* ------------------------------------------------------------- credentials

NoHeaders == [id |-> "", secret |-> ""]

\* The Authorization header of a request: absent, a value the caller put
\* there, or "Bearer <token>".
NoAuthorization == [scheme |-> "", token |-> NoToken]
CallerAuthorization == [scheme |-> "Basic", token |-> NoToken]
Bearer(accessToken) == [scheme |-> "Bearer", token |-> accessToken]

\* An *http.Request: method, URL, body, and the headers the client reads or
\* writes (Authorization, oauth2-client-id, oauth2-client-secret).
NoRequest ==
    [Method |-> "GET", URL |-> "u", Body |-> "",
     Authorization |-> NoAuthorization, id |-> "", secret |-> ""]

RequestOf(h) == [NoRequest EXCEPT !.id = h.id, !.secret = h.secret]

HeadersOf(r) == [id |-> r.id, secret |-> r.secret]

\* Requests explored for the handling of the request: a GET of u without
\* body or a POST of x to v, with every combination of the three headers.
Requests ==
    { r \in [Method : {"GET", "POST"}, URL : {"u", "v"}, Body : {"", "x"},
             Authorization : {NoAuthorization, CallerAuthorization},
             id : {"", "b"}, secret : {"", "sa", "sb"}] :
        (r.Method = "GET") = (r.URL = "u") /\ (r.Method = "GET") = (r.Body = "") }

\* Credential headers a request may carry (oauth2-client-id, oauth2-client-secret).
RequestHeaders ==
    IF options.GetCredentialsFromRequestHeader
    THEN { NoHeaders,
           [id |-> "b", secret |-> "sb"],
           [id |-> "b", secret |-> ""] }
    ELSE { NoHeaders, [id |-> "b", secret |-> "sb"] }

\* c.getCredentials: header values, each falling back to the static value
\* unless GetCredentialsFromRequestHeaderDontFallbackToStatic.
getCredentials_Joint(h) ==
    IF ~options.DontFallbackToStatic /\ h.id = "" /\ h.secret = ""
    THEN [id |-> StaticClientID, secret |-> StaticClientSecret]
    ELSE [id |-> h.id, secret |-> h.secret]

getCredentials_AlwaysFallback(h) ==
    [id     |-> IF h.id = "" THEN StaticClientID ELSE h.id,
     secret |-> IF h.secret = "" THEN StaticClientSecret ELSE h.secret]

getCredentials(h) ==
    IF ~options.DontFallbackToStatic
    THEN [id     |-> IF h.id = "" THEN StaticClientID ELSE h.id,
          secret |-> IF h.secret = "" THEN StaticClientSecret ELSE h.secret]
    ELSE [id |-> h.id, secret |-> h.secret]

NoInfo == [set |-> FALSE, Ctx1 |-> "", Ctx2 |-> ""]

\* Client.getToken, up to the group.Get call: the key and the Info passed on.
getTokenArgs_KeyBySecret(h) ==
    IF options.GetCredentialsFromRequestHeader
    THEN LET cr == getCredentials(h)
         IN  [clientID |-> IF cr.secret = Registered(cr.id) THEN cr.id ELSE "",
              info |-> [set |-> TRUE, Ctx1 |-> cr.id, Ctx2 |-> cr.secret]]
    ELSE [clientID |-> StaticClientID, info |-> NoInfo]

getTokenArgs_AlwaysHeader(h) ==
    LET cr == getCredentials(h)
    IN  [clientID |-> cr.id,
         info |-> [set |-> TRUE, Ctx1 |-> cr.id, Ctx2 |-> cr.secret]]

getTokenArgs_OneKey(h) ==
    IF options.GetCredentialsFromRequestHeader
    THEN LET cr == getCredentials(h)
         IN  [clientID |-> StaticClientID,
              info |-> [set |-> TRUE, Ctx1 |-> cr.id, Ctx2 |-> cr.secret]]
    ELSE [clientID |-> StaticClientID, info |-> NoInfo]

getTokenArgs(h) ==
    IF options.GetCredentialsFromRequestHeader
    THEN LET cr == getCredentials(h)
         IN  [clientID |-> cr.id,
              info |-> [set |-> TRUE, Ctx1 |-> cr.id, Ctx2 |-> cr.secret]]
    ELSE [clientID |-> StaticClientID, info |-> NoInfo]

\* Client.fetchToken: the credentials placed in the token request.
fetchCredentials_Static(info) ==
    [id |-> StaticClientID, secret |-> StaticClientSecret]

fetchCredentials(info) ==
    IF ~info.set
    THEN [id |-> StaticClientID, secret |-> StaticClientSecret]
    ELSE [id |-> info.Ctx1, secret |-> info.Ctx2]

\* ---------------------------------------------------------- token endpoint

\* What the token endpoint (or the network in front of it) may answer to a
\* client-credentials request.  "ok" carries the token currently valid for
\* the client id and the declared expires_in.
TokenEndpoint(id, secret) ==
    IF id \in Ids /\ secret = Registered(id)
    THEN { [kind |-> "ok", status |-> StatusOK,
            AccessToken |-> [id |-> id, gen |-> gen[id]], ExpiresIn |-> expireIn],
           [kind |-> "transport", status |-> 0,
            AccessToken |-> NoToken, ExpiresIn |-> 0],
           [kind |-> "status", status |-> HTTPStatusOkMax + 1,
            AccessToken |-> NoToken, ExpiresIn |-> 0],
           [kind |-> "malformed", status |-> StatusOK,
            AccessToken |-> NoToken, ExpiresIn |-> 0],
           [kind |-> "emptytoken", status |-> StatusOK,
            AccessToken |-> NoToken, ExpiresIn |-> 0] }
    ELSE { [kind |-> "status", status |-> StatusUnauthorized,
            AccessToken |-> NoToken, ExpiresIn |-> 0],
           [kind |-> "transport", status |-> 0,
            AccessToken |-> NoToken, ExpiresIn |-> 0] }

\* The token exchange of a call: the token request is made with the context
\* of the call, and a cancelled context aborts it.
Canceled == [kind |-> "canceled", status |-> 0, AccessToken |-> NoToken, ExpiresIn |-> 0]

TokenExchange(cl, id, secret) ==
    IF cl.cancelled THEN {Canceled} ELSE TokenEndpoint(id, secret)

\* The error for a token response status outside the accepted range: it
\* carries the status code.
StatusError(status) ==
    IF status = StatusUnauthorized THEN "StatusError401" ELSE "StatusError"

\* The token exchange: transport error, status outside the accepted range
\* and undecodable body are errors; otherwise the decoded fields.
SendRequest(resp) ==
    IF resp.kind = "canceled"
    THEN [err |-> "ContextCanceled", AccessToken |-> NoToken, ExpiresIn |-> 0]
    ELSE IF resp.kind = "transport"
    THEN [err |-> "TransportError", AccessToken |-> NoToken, ExpiresIn |-> 0]
    ELSE IF resp.status < HTTPStatusOkMin \/ resp.status > HTTPStatusOkMax
    THEN [err |-> StatusError(resp.status), AccessToken |-> NoToken, ExpiresIn |-> 0]
    ELSE IF resp.kind = "malformed"
    THEN [err |-> "ParseError", AccessToken |-> NoToken, ExpiresIn |-> 0]
    ELSE [err |-> Nil, AccessToken |-> resp.AccessToken, ExpiresIn |-> resp.ExpiresIn]

\* Client.fetchToken after the exchange: tokenInfo or error.
fetchToken(resp) ==
    LET tokenResp == SendRequest(resp)
    IN  IF tokenResp.err # Nil
        THEN [err |-> tokenResp.err, accessToken |-> NoToken, expiresIn |-> 0]
        ELSE IF tokenResp.AccessToken = NoToken
        THEN [err |-> "MissingAccessToken", accessToken |-> NoToken, expiresIn |-> 0]
        ELSE [err |-> Nil, accessToken |-> tokenResp.AccessToken,
              expiresIn |-> tokenResp.ExpiresIn]

\* Getter: expire := time.Now().Add(ti.expiresIn - softExpire).
GetterExpire_NoTTL(t, expiresIn) == t - options.SoftExpireInSeconds

GetterExpire_AddMargin(t, expiresIn) == t + expiresIn + options.SoftExpireInSeconds

GetterExpire(t, expiresIn) == t + expiresIn - options.SoftExpireInSeconds

\* Getter: the error of fetchToken, or dest.SetString(accessToken, expire).
Getter_StoreOnError(resp, t) ==
    LET ti == fetchToken(resp)
    IN  [err |-> Nil, value |-> ti.accessToken,
         expire |-> GetterExpire(t, ti.expiresIn), ttl |-> ti.expiresIn]

Getter_NoSetString(resp, t) ==
    LET ti == fetchToken(resp)
    IN  [err |-> ti.err, value |-> NoToken, expire |-> 0, ttl |-> 0]

Getter(resp, t) ==
    LET ti == fetchToken(resp)
    IN  IF ti.err # Nil
        THEN [err |-> ti.err, value |-> NoToken, expire |-> 0, ttl |-> 0]
        ELSE [err |-> Nil, value |-> ti.accessToken,
              expire |-> GetterExpire(t, ti.expiresIn), ttl |-> ti.expiresIn]

\* ----------------------------------------------------- token response body

\* The characters of a decimal numeral, and the value of a digit.
Digits == <<"0", "1", "2", "3", "4", "5", "6", "7", "8", "9">>

IsDigit(ch) == \E i \in 1..10 : Digits[i] = ch

DigitValue(ch) == (CHOOSE i \in 1..10 : Digits[i] = ch) - 1

\* The decimal numeral of an integer, as a token endpoint writes it.
RECURSIVE DecimalDigits(_)
DecimalDigits(n) ==
    IF n < 10 THEN <<Digits[n + 1]>>
    ELSE Append(DecimalDigits(n \div 10), Digits[(n % 10) + 1])

DecimalString(n) == IF n < 0 THEN <<"-">> \o DecimalDigits(0 - n) ELSE DecimalDigits(n)

\* A JSON value as json.Unmarshal hands it over in an interface{}: nil,
\* bool, float64 (kept in tenths), string (its characters), map, slice;
\* Absent stands for a key that is not in the object.
Absent      == [type |-> "absent", tenths |-> 0, chars |-> <<>>]
JNull       == [type |-> "null",   tenths |-> 0, chars |-> <<>>]
JBool       == [type |-> "bool",   tenths |-> 0, chars |-> <<>>]
JObject     == [type |-> "object", tenths |-> 0, chars |-> <<>>]
JArray      == [type |-> "array",  tenths |-> 0, chars |-> <<>>]
JNumber(t)  == [type |-> "number", tenths |-> t, chars |-> <<>>]
JString(cs) == [type |-> "string", tenths |-> 0, chars |-> cs]

\* A response body: no bytes, bytes that are not JSON, a JSON document that
\* is not an object, or a JSON object with its access_token and expires_in.
NoBody == [kind |-> "none", access_token |-> Absent, expires_in |-> Absent]

ExpiresInIntegers == ((0 - 2)..MaxExpiresIn) \cup {300}

\* Strings strconv.Atoi rejects, and numerals it accepts that are not the
\* decimal string of their value.
BadStrings ==
    { <<>>, <<"T", "T", "T">>, <<"1", ".", "5">>, <<" ", "1">>, <<"1", " ">>,
      <<"-">>, <<"+">>, <<"1", "e", "2">>, <<"0", "x", "1">>, <<"-", "-", "1">>,
      <<"3", "T">> }

OddNumerals == { <<"+", "1">>, <<"0", "1">>, <<"-", "0">> }

AccessTokenValues ==
    { Absent, JNull, JBool, JNumber(1230), JNumber(11),
      JString(<<>>), JString(<<"a", "b", "c">>), JString(<<"x", "y", "z">>) }

ExpiresInValues ==
    { Absent, JNull, JBool, JObject, JArray }
      \cup { JNumber(10 * n) : n \in ExpiresInIntegers }
      \cup { JNumber(t) : t \in {5, 15, 0 - 15, 3005} }
      \cup { JString(DecimalString(n)) : n \in ExpiresInIntegers }
      \cup { JString(cs) : cs \in BadStrings \cup OddNumerals }

Bodies ==
    { [kind |-> k, access_token |-> Absent, expires_in |-> Absent] :
         k \in {"empty", "text", "array", "string", "number", "null"} }
      \cup { [kind |-> "object", access_token |-> a, expires_in |-> e] :
               a \in AccessTokenValues, e \in ExpiresInValues }

\* json.Unmarshal(buf, &data) with data a map[string]interface{}: an error
\* for no input, for bytes that are not JSON and for a document that is not
\* an object; null leaves the map nil.
Unmarshal(body) ==
    IF body.kind = "empty"
    THEN [err |-> "unexpected end of JSON input", data |-> NoBody]
    ELSE IF body.kind = "text"
    THEN [err |-> "invalid character", data |-> NoBody]
    ELSE IF body.kind \in {"array", "string", "number"}
    THEN [err |-> "json: cannot unmarshal into Go value of type map[string]interface {}",
          data |-> NoBody]
    ELSE [err |-> Nil, data |-> body]

\* strconv.Atoi: an optional sign, then one or more decimal digits.
RECURSIVE DigitSum(_)
DigitSum(ds) ==
    IF ds = <<>> THEN 0
    ELSE DigitSum(SubSeq(ds, 1, Len(ds) - 1)) + DigitValue(ds[Len(ds)])

RECURSIVE DigitsValue(_)
DigitsValue(ds) ==
    IF ds = <<>> THEN 0
    ELSE DigitsValue(SubSeq(ds, 1, Len(ds) - 1)) * 10 + DigitValue(ds[Len(ds)])

Atoi_DigitSum(cs) ==
    LET ds == IF Len(cs) > 0 /\ cs[1] \in {"+", "-"} THEN Tail(cs) ELSE cs
    IN  IF Len(ds) = 0 \/ \E i \in 1..Len(ds) : ~IsDigit(ds[i])
        THEN [err |-> "invalid syntax", n |-> 0]
        ELSE [err |-> Nil, n |-> IF cs[1] = "-" THEN 0 - DigitSum(ds) ELSE DigitSum(ds)]

Atoi_EmptyIsZero(cs) ==
    LET ds == IF Len(cs) > 0 /\ cs[1] \in {"+", "-"} THEN Tail(cs) ELSE cs
    IN  IF \E i \in 1..Len(ds) : ~IsDigit(ds[i])
        THEN [err |-> "invalid syntax", n |-> 0]
        ELSE [err |-> Nil,
              n |-> IF Len(cs) > 0 /\ cs[1] = "-" THEN 0 - DigitsValue(ds)
                    ELSE DigitsValue(ds)]

Atoi(cs) ==
    LET ds == IF Len(cs) > 0 /\ cs[1] \in {"+", "-"} THEN Tail(cs) ELSE cs
    IN  IF Len(ds) = 0 \/ \E i \in 1..Len(ds) : ~IsDigit(ds[i])
        THEN [err |-> "invalid syntax", n |-> 0]
        ELSE [err |-> Nil, n |-> IF cs[1] = "-" THEN 0 - DigitsValue(ds) ELSE DigitsValue(ds)]

\* time.Duration(expireVal) of a float64: the fraction is dropped.
Truncate(tenths) ==
    IF tenths >= 0 THEN tenths \div 10 ELSE 0 - ((0 - tenths) \div 10)

\* parseToken: the tokenInfo (expiresIn in seconds) and the error.
parseToken_OneMessage(body) ==
    LET u == Unmarshal(body)
        accessToken == u.data.access_token
        expire == u.data.expires_in
        none == [err |-> Nil, accessToken |-> <<>>, expiresIn |-> 0]
    IN  IF u.err # Nil THEN [none EXCEPT !.err = u.err]
        ELSE IF accessToken.type # "string" \/ accessToken.chars = <<>>
        THEN [none EXCEPT !.err = "missing access_token field in token response"]
        ELSE LET info == [none EXCEPT !.accessToken = accessToken.chars]
             IN  IF expire.type = "absent" THEN info
                 ELSE IF expire.type = "number"
                 THEN [info EXCEPT !.expiresIn = Truncate(expire.tenths)]
                 ELSE IF expire.type = "string"
                 THEN LET conv == Atoi(expire.chars)
                      IN  IF conv.err # Nil
                          THEN [info EXCEPT !.err =
                                  "error converting expires_in field from string to int"]
                          ELSE [info EXCEPT !.expiresIn = conv.n]
                 ELSE [info EXCEPT !.err =
                         "unexpected type for expires_in field in token response"]

parseToken(body) ==
    LET u == Unmarshal(body)
        accessToken == u.data.access_token
        expire == u.data.expires_in
        none == [err |-> Nil, accessToken |-> <<>>, expiresIn |-> 0]
    IN  IF u.err # Nil THEN [none EXCEPT !.err = u.err]
        ELSE IF accessToken.type = "absent"
        THEN [none EXCEPT !.err = "missing access_token field in token response"]
        ELSE IF accessToken.type # "string"
        THEN [none EXCEPT !.err =
                "non-string value for access_token field in token response"]
        ELSE IF accessToken.chars = <<>>
        THEN [none EXCEPT !.err = "empty access_token in token response"]
        ELSE LET info == [none EXCEPT !.accessToken = accessToken.chars]
             IN  IF expire.type = "absent" THEN info
                 ELSE IF expire.type = "number"
                 THEN [info EXCEPT !.expiresIn = Truncate(expire.tenths)]
                 ELSE IF expire.type = "string"
                 THEN LET conv == Atoi(expire.chars)
                      IN  IF conv.err # Nil
                          THEN [info EXCEPT !.err =
                                  "error converting expires_in field from string to int"]
                          ELSE [info EXCEPT !.expiresIn = conv.n]
                 ELSE [info EXCEPT !.err =
                         "unexpected type for expires_in field in token response"]

\* New: HTTPStatusOkMin and HTTPStatusOkMax default to 200 and 299.
NewStatusRange(o) ==
    [o EXCEPT !.HTTPStatusOkMin = IF @ = 0 THEN HTTPStatusOkMin ELSE @,
              !.HTTPStatusOkMax = IF @ = 0 THEN HTTPStatusOkMax ELSE @]

\* fetchToken: the test of the response status against the configured range.
StatusInRange_HalfOpen(o, status) ==
    ~(status < o.HTTPStatusOkMin \/ status >= o.HTTPStatusOkMax)

StatusInRange(o, status) ==
    ~(status < o.HTTPStatusOkMin \/ status > o.HTTPStatusOkMax)

\* The error fetchToken returns: its message, the cause it wraps, and for
\* the status error the status code and the body it quotes.
NoError == [msg |-> Nil, cause |-> Nil, status |-> 0, body |-> NoBody]

NoTokenResponse == [status |-> 0, body |-> NoBody]

NoTokenInfo == [err |-> NoError, accessToken |-> <<>>, expiresIn |-> 0]

\* fetchToken once the response has been read: a status outside the range
\* is an error quoting status and body; otherwise the body is parsed and a
\* parse error is wrapped.
fetchTokenResponse(o, resp) ==
    IF ~StatusInRange(o, resp.status)
    THEN [NoTokenInfo EXCEPT !.err =
            [msg |-> "bad token server response http status", cause |-> Nil,
             status |-> resp.status, body |-> resp.body]]
    ELSE LET info == parseToken(resp.body)
         IN  [err |-> IF info.err # Nil
                      THEN [NoError EXCEPT !.msg = "parse token", !.cause = info.err]
                      ELSE NoError,
              accessToken |-> info.accessToken,
              expiresIn |-> info.expiresIn]

\* ------------------------------------------------------------------- cache

\* A cache entry: the stored value and expiry; "at" and "ttl" record the
\* fetch time and the declared time-to-live of the stored token.
NoEntry == [present |-> FALSE, value |-> NoToken, expire |-> 0, at |-> 0, ttl |-> 0]

NoFlight == [active |-> FALSE, leader |-> 0]

\* The group serves an entry until its expiry instant.
CacheHit(k) == cache[k].present /\ now < cache[k].expire

\* The margin and the expiry instant the documentation gives a stored token.
DeclaredSoftExpire ==
    IF opt.SoftExpireInSeconds = 0 THEN 10
    ELSE IF opt.SoftExpireInSeconds = -1 THEN 0
    ELSE opt.SoftExpireInSeconds

Deadline(e) == e.at + e.ttl - DeclaredSoftExpire


\* ------------------------------------------------------------------- calls

NoOutput == [ClientID |-> "", Response |-> NoResponse, Error |-> Nil]

\* The registers of a DoWithOutput call: the request as the caller passed
\* it and the request object as it is now, the request's credential headers,
\* the token obtained, the response, the Output being built; how the token
\* was obtained (hit, join, lead), the error getToken returned, the requests
\* the resource server received from this call, and whether group.Remove
\* failed, and whether the context of the request has been cancelled;
\* "raced" records that group.Remove ran while a load of the removed key
\* was in flight.
IdleCall ==
    [pc |-> "idle", given |-> NoRequest, req |-> NoRequest,
     hdr |-> NoHeaders, accessToken |-> NoToken,
     resp |-> NoResponse, out |-> NoOutput,
     how |-> "none", tokErr |-> Nil, sent |-> 0, removeErr |-> FALSE,
     cancelled |-> FALSE, raced |-> FALSE]

\* The resolved client id and the Info of a call: getToken's locals.
ClientIDOf(cl) == getTokenArgs(cl.hdr).clientID
InfoOf(cl)     == getTokenArgs(cl.hdr).info

\* DoWithOutput: the consumed credential headers are deleted from the
\* request, the secret unless ForwardHeaderClientSecret, the id if
\* PreventForwardingHeaderClientID.
StripHeaders_Nested(r) ==
    IF options.GetCredentialsFromRequestHeader /\ ~options.ForwardHeaderClientSecret
    THEN [r EXCEPT !.secret = "",
                   !.id = IF options.PreventForwardingHeaderClientID THEN "" ELSE @]
    ELSE r

StripHeaders_Unconditional(r) ==
    [r EXCEPT !.secret = IF ~options.ForwardHeaderClientSecret THEN "" ELSE @,
              !.id = IF options.PreventForwardingHeaderClientID THEN "" ELSE @]

StripHeaders(r) ==
    IF options.GetCredentialsFromRequestHeader
    THEN [r EXCEPT !.secret = IF ~options.ForwardHeaderClientSecret THEN "" ELSE @,
                   !.id = IF options.PreventForwardingHeaderClientID THEN "" ELSE @]
    ELSE r

\* Client.send: req.Header.Set("Authorization", "Bearer " + accessToken).
SetAuthorization_Add(r, accessToken) ==
    IF r.Authorization = NoAuthorization
    THEN [r EXCEPT !.Authorization = Bearer(accessToken)]
    ELSE r

SetAuthorization(r, accessToken) == [r EXCEPT !.Authorization = Bearer(accessToken)]

\* DoWithOutput after getToken returned: the error ends the call; otherwise
\* the client id is recorded and the credential headers are stripped.
AfterGetToken_IgnoreError(cl, accessToken, errToken) ==
    [cl EXCEPT !.pc = "send", !.accessToken = accessToken,
               !.out = [@ EXCEPT !.ClientID = ClientIDOf(cl)],
               !.req = StripHeaders(@)]

AfterGetToken_JoinersProceed(cl, accessToken, errToken) ==
    IF errToken # Nil /\ cl.how # "join"
    THEN [cl EXCEPT !.pc = "done", !.out = [@ EXCEPT !.Error = errToken]]
    ELSE [cl EXCEPT !.pc = "send", !.accessToken = accessToken,
                    !.out = [@ EXCEPT !.ClientID = ClientIDOf(cl)],
                    !.req = StripHeaders(@)]

AfterGetToken_WaitersStuck(cl, accessToken, errToken) ==
    IF errToken # Nil /\ cl.how = "join" THEN cl
    ELSE IF errToken # Nil
    THEN [cl EXCEPT !.pc = "done", !.out = [@ EXCEPT !.Error = errToken]]
    ELSE [cl EXCEPT !.pc = "send", !.accessToken = accessToken,
                    !.out = [@ EXCEPT !.ClientID = ClientIDOf(cl)],
                    !.req = StripHeaders(@)]

AfterGetToken(cl, accessToken, errToken) ==
    IF errToken # Nil
    THEN [cl EXCEPT !.pc = "done", !.out = [@ EXCEPT !.Error = errToken]]
    ELSE [cl EXCEPT !.pc = "send", !.accessToken = accessToken,
                    !.out = [@ EXCEPT !.ClientID = ClientIDOf(cl)],
                    !.req = StripHeaders(@)]

\* DoWithOutput after c.send returned: a transport error ends the call; a
\* response is recorded and, on a bad-token status, group.Remove is called
\* before the output is returned.
AfterSend_IgnoreError(cl, status, errResp) ==
    [cl EXCEPT !.pc = IF IsBadTokenStatus(status) THEN "remove" ELSE "done",
               !.resp = status, !.out = [@ EXCEPT !.Response = status]]

AfterSend(cl, status, errResp) ==
    IF errResp # Nil
    THEN [cl EXCEPT !.pc = "done", !.out = [@ EXCEPT !.Error = errResp]]
    ELSE [cl EXCEPT !.pc = IF IsBadTokenStatus(status) THEN "remove" ELSE "done",
                    !.resp = status, !.sent = @ + 1,
                    !.out = [@ EXCEPT !.Response = status]]

\* DoWithOutput: the key handed to group.Remove after a bad-token status.
RemoveKey(cl) == StaticClientID

\* DoWithOutput after group.Remove returned: the error is logged only.
AfterRemove_ReturnError(cl, errRemove) ==
    [cl EXCEPT !.pc = "done", !.removeErr = errRemove,
               !.out = [@ EXCEPT !.Error = IF errRemove THEN "RemoveError" ELSE @]]

AfterRemove_Retry(cl, errRemove) ==
    [cl EXCEPT !.pc = "send", !.removeErr = errRemove]

AfterRemove(cl, errRemove) ==
    [cl EXCEPT !.pc = "done", !.removeErr = errRemove]

\* The resource server's validToken.
validToken(tok) == tok.id \in Ids /\ tok.gen = gen[tok.id]

\* What group.Remove may do: remove the entry, or fail before or after
\* removing the local entry.
RemoveOutcomes ==
    { [err |-> FALSE, removed |-> TRUE],
      [err |-> TRUE,  removed |-> FALSE],
      [err |-> TRUE,  removed |-> TRUE] }

\* ----------------------------------------------------------------- actions

Init ==
    /\ opt \in RawOptions
    /\ options = New(opt)
    /\ expireIn \in { p[2] : p \in { q \in Lifetimes : q[1] = opt.SoftExpireInSeconds } }
    /\ now = 0
    /\ gen = [id \in Ids |-> 0]
    /\ cache = [k \in Keys |-> NoEntry]
    /\ flight = [k \in Keys |-> NoFlight]
    /\ call = [c \in Callers |-> IdleCall]
    /\ tokenCount = [k \in Keys |-> 0]
    /\ serverCount = 0
    /\ calls = 0
    /\ exchanges = [ok |-> 0, lost |-> 0, dropped |-> 0]
    /\ disturbed = [k \in Keys |-> FALSE]
    /\ tokenResponse = NoTokenResponse
    /\ tokenInfo = NoTokenInfo

\* Callers are interchangeable: the first may call again after a call has
\* returned, the others make one call each.
CanStart(c) == call[c].pc = "idle" \/ (c = 1 /\ call[c].pc = "done")

\* A caller enters DoWithOutput with a request carrying headers h: getToken
\* resolves the identity and calls group.Get, which returns an unexpired
\* entry, or joins the load in flight for the key, or starts it.
DoWithOutput(c, r) ==
    /\ CanStart(c)
    /\ calls < MaxCalls
    /\ calls' = calls + 1
    /\ LET cl == [IdleCall EXCEPT !.given = r, !.req = r, !.hdr = HeadersOf(r)]
           k  == ClientIDOf(cl)
       IN  IF CacheHit(k)
           THEN /\ call' = [call EXCEPT ![c] =
                       AfterGetToken([cl EXCEPT !.how = "hit"], cache[k].value, Nil)]
                /\ UNCHANGED flight
           ELSE IF flight[k].active
           THEN /\ call' = [call EXCEPT ![c] =
                       [cl EXCEPT !.pc = "wait", !.how = "join"]]
                /\ UNCHANGED flight
           ELSE /\ call' = [call EXCEPT ![c] =
                       [cl EXCEPT !.pc = "fetch", !.how = "lead"]]
                /\ flight' = [flight EXCEPT ![k] = [active |-> TRUE, leader |-> c]]
    /\ UNCHANGED <<tokenResponse, tokenInfo, opt, options, expireIn, now, gen, cache,
                   tokenCount, serverCount, exchanges, disturbed>>

\* Client.Do with a request that carries the credential headers h.
Do(c, h) == DoWithOutput(c, RequestOf(h))

\* The load of a key runs the Getter once, with the Info of the caller that
\* started it: the token exchange, then the store.  That caller and every
\* caller that joined the load receive its value or its error.
Exchange(c) ==
    /\ call[c].pc = "fetch"
    /\ LET k  == ClientIDOf(call[c])
           cr == fetchCredentials(InfoOf(call[flight[k].leader]))
       IN  \E resp \in TokenExchange(call[flight[k].leader], cr.id, cr.secret) :
             LET g == Getter(resp, now)
                 e == [present |-> TRUE, value |-> g.value, expire |-> g.expire,
                       at |-> now, ttl |-> g.ttl]
             IN  /\ tokenCount' = IF resp.kind \in {"transport", "canceled"} THEN tokenCount
                                  ELSE [tokenCount EXCEPT ![cr.id] = @ + 1]
                 /\ cache' = IF g.err = Nil THEN [cache EXCEPT ![k] = e] ELSE cache
                 /\ flight' = [flight EXCEPT ![k] = NoFlight]
                 /\ call' = [d \in Callers |->
                       IF d = c \/ (call[d].pc = "wait" /\ ClientIDOf(call[d]) = k)
                       THEN AfterGetToken([call[d] EXCEPT !.tokErr = g.err],
                                          g.value, g.err)
                       ELSE call[d]]
                 /\ exchanges' = [exchanges EXCEPT
                       !.ok = IF resp.kind = "ok" THEN @ + 1 ELSE @,
                       !.lost = IF resp.kind \in {"transport", "canceled"} THEN @ + 1 ELSE @]
                 /\ disturbed' = [disturbed EXCEPT ![k] =
                       @ \/ resp.kind # "ok" \/ Deadline(e) <= now]
    /\ UNCHANGED <<tokenResponse, tokenInfo, opt, options, expireIn, now, gen, serverCount, calls>>

\* c.send: the Authorization header is set; then the transport fails, or the resource server receives the request
\* and answers 200 to a valid token, 401 to any other, or with a
\* status of its own that is neither (the first above the 2xx range).
Send(c) ==
    /\ call[c].pc = "send"
    /\ LET cl == [call[c] EXCEPT !.req = SetAuthorization(@, call[c].accessToken)]
       IN
       \/ /\ call' = [call EXCEPT ![c] = AfterSend(cl, NoResponse,
                         IF cl.cancelled THEN "ContextCanceled" ELSE "SendError")]
          /\ exchanges' = [exchanges EXCEPT !.dropped = @ + 1]
          /\ UNCHANGED serverCount
       \/ /\ ~cl.cancelled
          /\ \E status \in {IF validToken(cl.req.Authorization.token)
                            THEN StatusOK ELSE StatusUnauthorized,
                            HTTPStatusOkMax + 1} :
                call' = [call EXCEPT ![c] = AfterSend(cl, status, Nil)]
          /\ serverCount' = serverCount + 1
          /\ UNCHANGED exchanges
    /\ UNCHANGED <<tokenResponse, tokenInfo, opt, options, expireIn, now, gen, cache, flight,
                   tokenCount, calls, disturbed>>

\* DoWithOutput after a bad-token status: the key is removed from the
\* group, then the output is returned.
Remove(c) ==
    /\ call[c].pc = "remove"
    /\ \E o \in RemoveOutcomes :
         LET k == RemoveKey(call[c])
         IN  /\ cache' = IF o.removed THEN [cache EXCEPT ![k] = NoEntry] ELSE cache
             /\ call' = [call EXCEPT ![c] =
                    [AfterRemove(@, o.err) EXCEPT !.raced = flight[k].active]]
             /\ disturbed' = [disturbed EXCEPT ![k] = TRUE]
    /\ UNCHANGED <<tokenResponse, tokenInfo, opt, options, expireIn, now, gen, flight,
                   tokenCount, serverCount, calls, exchanges>>

\* One second passes.
Tick ==
    /\ now < MaxTime
    /\ now' = now + 1
    /\ disturbed' = [k \in Keys |->
           disturbed[k] \/ (cache[k].present /\ Deadline(cache[k]) <= now + 1)]
    /\ UNCHANGED <<tokenResponse, tokenInfo, opt, options, expireIn, gen, cache, flight, call,
                   tokenCount, serverCount, calls, exchanges>>

\* The cached token of a client id is revoked: the resource server rejects
\* it from now on and the token endpoint issues the next one.
Invalidate(id) ==
    /\ gen["a"] + gen["b"] < MaxRevocations
    /\ cache[id].present /\ cache[id].value.gen = gen[id]
    /\ gen' = [gen EXCEPT ![id] = @ + 1]
    /\ UNCHANGED <<tokenResponse, tokenInfo, opt, options, expireIn, now, cache, flight, call,
                   tokenCount, serverCount, calls, exchanges, disturbed>>

Next ==
    \/ \E c \in Callers : \E h \in RequestHeaders : Do(c, h)
    \/ \E c \in Callers : Exchange(c)
    \/ \E c \in Callers : Send(c)
    \/ \E c \in Callers : Remove(c)
    \/ Tick
    \/ \E id \in Ids : Invalidate(id)

Spec == Init /\ [][Next]_vars

\* ------------------------------------------- handling of the request

\* The client under every setting of the header switches, called with every
\* request of Requests.
InitHeaders ==
    /\ opt \in HeaderRawOptions
    /\ options = New(opt)
    /\ expireIn = 1
    /\ now = 0
    /\ gen = [id \in Ids |-> 0]
    /\ cache = [k \in Keys |-> NoEntry]
    /\ flight = [k \in Keys |-> NoFlight]
    /\ call = [c \in Callers |-> IdleCall]
    /\ tokenCount = [k \in Keys |-> 0]
    /\ serverCount = 0
    /\ calls = 0
    /\ exchanges = [ok |-> 0, lost |-> 0, dropped |-> 0]
    /\ disturbed = [k \in Keys |-> FALSE]
    /\ tokenResponse = NoTokenResponse
    /\ tokenInfo = NoTokenInfo

NextHeaders ==
    \/ \E c \in 1..NHeaderCallers : \E r \in Requests : DoWithOutput(c, r)
    \/ \E c \in 1..NHeaderCallers : Exchange(c)
    \/ \E c \in 1..NHeaderCallers : Send(c)
    \/ \E c \in 1..NHeaderCallers : Remove(c)
    \/ \E id \in Ids : Invalidate(id)

SpecHeaders == InitHeaders /\ [][NextHeaders]_vars

\* ------------------------------------------------------------ cancellation

\* The caller cancels the context of its request while the call is blocked
\* in group.Get or in the transport.
Cancel(c) ==
    /\ call[c].pc \in {"fetch", "wait", "send"}
    /\ ~call[c].cancelled
    /\ call' = [call EXCEPT ![c].cancelled = TRUE]
    /\ UNCHANGED <<tokenResponse, tokenInfo, opt, options, expireIn, now, gen, cache, flight,
                   tokenCount, serverCount, calls, exchanges, disturbed>>

\* A call that waits for the load another call started and whose context is
\* cancelled may return from group.Get with the context's error while the
\* load goes on.
Abandon(c) ==
    /\ call[c].pc = "wait"
    /\ call[c].cancelled
    /\ call' = [call EXCEPT ![c] =
            AfterGetToken([@ EXCEPT !.tokErr = "ContextCanceled"],
                          NoToken, "ContextCanceled")]
    /\ UNCHANGED <<tokenResponse, tokenInfo, opt, options, expireIn, now, gen, cache, flight,
                   tokenCount, serverCount, calls, exchanges, disturbed>>

\* The client with soft expire off, its callers free to cancel.
InitCancel ==
    /\ opt \in { o \in RawOptions : o.SoftExpireInSeconds = -1 }
    /\ options = New(opt)
    /\ expireIn = 1
    /\ now = 0
    /\ gen = [id \in Ids |-> 0]
    /\ cache = [k \in Keys |-> NoEntry]
    /\ flight = [k \in Keys |-> NoFlight]
    /\ call = [c \in Callers |-> IdleCall]
    /\ tokenCount = [k \in Keys |-> 0]
    /\ serverCount = 0
    /\ calls = 0
    /\ exchanges = [ok |-> 0, lost |-> 0, dropped |-> 0]
    /\ disturbed = [k \in Keys |-> FALSE]
    /\ tokenResponse = NoTokenResponse
    /\ tokenInfo = NoTokenInfo

NextCancel ==
    \/ \E c \in Callers : \E h \in RequestHeaders : Do(c, h)
    \/ \E c \in Callers : Cancel(c)
    \/ \E c \in Callers : Abandon(c)
    \/ \E c \in Callers : Exchange(c)
    \/ \E c \in Callers : Send(c)

SpecCancel == InitCancel /\ [][NextCancel]_vars

\* -------------------------------------------------- resource server statuses

\* Statuses a resource server may answer for reasons of its own, whatever
\* the token: the neighbours of 401, another client error, a server error.
OtherStatuses == {400, 402, 403, 500}

\* c.send, the resource server answering with one of OtherStatuses.
SendOther(c) ==
    /\ call[c].pc = "send"
    /\ ~call[c].cancelled
    /\ LET cl == [call[c] EXCEPT !.req = SetAuthorization(@, call[c].accessToken)]
       IN  \E status \in OtherStatuses :
              call' = [call EXCEPT ![c] = AfterSend(cl, status, Nil)]
    /\ serverCount' = serverCount + 1
    /\ UNCHANGED <<tokenResponse, tokenInfo, opt, options, expireIn, now, gen, cache, flight,
                   tokenCount, calls, exchanges, disturbed>>

\* The client with soft expire off and a token that does not expire within
\* the run, in front of such a resource server.
InitStatuses ==
    /\ opt \in { o \in RawOptions : o.SoftExpireInSeconds = -1 }
    /\ options = New(opt)
    /\ expireIn = 1
    /\ now = 0
    /\ gen = [id \in Ids |-> 0]
    /\ cache = [k \in Keys |-> NoEntry]
    /\ flight = [k \in Keys |-> NoFlight]
    /\ call = [c \in Callers |-> IdleCall]
    /\ tokenCount = [k \in Keys |-> 0]
    /\ serverCount = 0
    /\ calls = 0
    /\ exchanges = [ok |-> 0, lost |-> 0, dropped |-> 0]
    /\ disturbed = [k \in Keys |-> FALSE]
    /\ tokenResponse = NoTokenResponse
    /\ tokenInfo = NoTokenInfo

NextStatuses ==
    \/ \E c \in Callers : \E h \in RequestHeaders : Do(c, h)
    \/ \E c \in Callers : Exchange(c)
    \/ \E c \in Callers : Send(c)
    \/ \E c \in Callers : SendOther(c)
    \/ \E c \in Callers : Remove(c)
    \/ \E id \in Ids : Invalidate(id)

SpecStatuses == InitStatuses /\ [][NextStatuses]_vars

\* ------------------------------------------------------- token responses

\* Statuses the token endpoint may answer with: the bounds of the default
\* and of the configured range, their neighbours, and 401.
TokenStatuses == {199, 200, 201, 204, 205, 299, 300, 401}

\* Configurations explored: the status range left to its default or set, on
\* either side.
TokenRawOptions ==
    [ SoftExpireInSeconds : {-1},
      GetCredentialsFromRequestHeader : {FALSE},
      DontFallbackToStatic : {FALSE},
      ForwardHeaderClientSecret : {FALSE},
      PreventForwardingHeaderClientID : {FALSE},
      HTTPStatusOkMin : {0, 201},
      HTTPStatusOkMax : {0, 204} ]

\* An entry whose expiry instant has passed.
StaleEntry ==
    [present |-> TRUE, value |-> <<"o", "l", "d">>, expire |-> 0, at |-> 0, ttl |-> 0]

\* The load of the static client's key: the Getter runs fetchToken on the
\* response the token endpoint gave and, without error, stores the token
\* with its expiry.
LoadToken(status, body) ==
    /\ tokenCount[StaticClientID] = 0
    /\ LET resp == [status |-> status, body |-> body]
           info == fetchTokenResponse(options, resp)
       IN  /\ tokenResponse' = resp
           /\ tokenInfo' = info
           /\ cache' = IF info.err # NoError THEN cache
                       ELSE [cache EXCEPT ![StaticClientID] =
                               [present |-> TRUE, value |-> info.accessToken,
                                expire |-> GetterExpire(now, info.expiresIn),
                                at |-> now, ttl |-> info.expiresIn]]
    /\ tokenCount' = [tokenCount EXCEPT ![StaticClientID] = @ + 1]
    /\ UNCHANGED <<opt, options, expireIn, now, gen, flight, call,
                   serverCount, calls, exchanges, disturbed>>

\* The client with each status range, its cache empty or holding an expired
\* entry, before the load.
InitToken ==
    /\ opt \in TokenRawOptions
    /\ options = NewStatusRange(New(opt))
    /\ expireIn = 0
    /\ now = 0
    /\ gen = [id \in Ids |-> 0]
    /\ cache \in { [k \in Keys |-> NoEntry],
                   [k \in Keys |-> IF k = StaticClientID THEN StaleEntry ELSE NoEntry] }
    /\ flight = [k \in Keys |-> NoFlight]
    /\ call = [c \in Callers |-> IdleCall]
    /\ tokenCount = [k \in Keys |-> 0]
    /\ serverCount = 0
    /\ calls = 0
    /\ exchanges = [ok |-> 0, lost |-> 0, dropped |-> 0]
    /\ disturbed = [k \in Keys |-> FALSE]
    /\ tokenResponse = NoTokenResponse
    /\ tokenInfo = NoTokenInfo

NextToken == \E status \in TokenStatuses : \E body \in Bodies : LoadToken(status, body)

SpecToken == InitToken /\ [][NextToken]_vars

\* ------------------------------------------------------ soft-expire values

\* SoftExpireInSeconds is an int that New takes as given apart from 0 and
\* -1: the values explored, on both sides of them.
SoftExpireValues == {0 - 3, 0 - 2, 0 - 1, 0, 1, 2}

SoftRawOptions ==
    [ SoftExpireInSeconds : SoftExpireValues,
      GetCredentialsFromRequestHeader : {FALSE},
      DontFallbackToStatic : {FALSE},
      ForwardHeaderClientSecret : {FALSE},
      PreventForwardingHeaderClientID : {FALSE} ]

\* The client with each of these margins, the token endpoint declaring no
\* expires_in or one of 3 seconds.
InitSoft ==
    /\ opt \in SoftRawOptions
    /\ options = New(opt)
    /\ expireIn \in {0, 3}
    /\ now = 0
    /\ gen = [id \in Ids |-> 0]
    /\ cache = [k \in Keys |-> NoEntry]
    /\ flight = [k \in Keys |-> NoFlight]
    /\ call = [c \in Callers |-> IdleCall]
    /\ tokenCount = [k \in Keys |-> 0]
    /\ serverCount = 0
    /\ calls = 0
    /\ exchanges = [ok |-> 0, lost |-> 0, dropped |-> 0]
    /\ disturbed = [k \in Keys |-> FALSE]
    /\ tokenResponse = NoTokenResponse
    /\ tokenInfo = NoTokenInfo

NextSoft ==
    \/ \E c \in Callers : Do(c, NoHeaders)
    \/ \E c \in Callers : Exchange(c)
    \/ \E c \in Callers : Send(c)
    \/ Tick

SpecSoft == InitSoft /\ [][NextSoft]_vars

\* ---------------------------------------------------------------- progress

\* The client with soft expire off, static or header credentials with
\* fallback, its calls running to their end.
InitLive ==
    /\ opt \in { o \in RawOptions :
                   o.SoftExpireInSeconds = -1 /\ ~o.DontFallbackToStatic }
    /\ options = New(opt)
    /\ expireIn = 1
    /\ now = 0
    /\ gen = [id \in Ids |-> 0]
    /\ cache = [k \in Keys |-> NoEntry]
    /\ flight = [k \in Keys |-> NoFlight]
    /\ call = [c \in Callers |-> IdleCall]
    /\ tokenCount = [k \in Keys |-> 0]
    /\ serverCount = 0
    /\ calls = 0
    /\ exchanges = [ok |-> 0, lost |-> 0, dropped |-> 0]
    /\ disturbed = [k \in Keys |-> FALSE]
    /\ tokenResponse = NoTokenResponse
    /\ tokenInfo = NoTokenInfo

NextLive ==
    \/ \E c \in Callers : \E h \in RequestHeaders : Do(c, h)
    \/ \E c \in Callers : Exchange(c)
    \/ \E c \in Callers : Send(c)
    \/ \E c \in Callers : Remove(c)
    \/ \E id \in Ids : Invalidate(id)

\* Every token exchange and every resource-server request is answered or
\* fails, and group.Remove returns; when a caller calls and when a token is
\* revoked is left open.
Fairness ==
    \A c \in Callers :
        /\ WF_vars(Exchange(c))
        /\ WF_vars(Send(c))
        /\ WF_vars(Remove(c))

SpecLive == InitLive /\ [][NextLive]_vars /\ Fairness

\* ------------------------------------------------------------ properties

\* Caller c enters DoWithOutput in this step.
Starts(c) == calls' = calls + 1 /\ call'[c] # call[c]

\* Key k holds a token whose documented expiry instant lies ahead.
LiveToken(k) == cache[k].present /\ now < Deadline(cache[k])

\* The other callers have made no call: the history is one caller's
\* sequence of calls.
Sequential(c) == \A d \in Callers \ {c} : call[d].pc = "idle"

\* C1: a call made while the identity's cached token is unexpired is served
\* that token without any token-endpoint request, and every call sends at
\* most one request to the resource server, exactly one when it receives a
\* response: N sequential calls cost one token request and N server requests.
C1_Idempotent ==
    /\ [][\A c \in Callers :
            LET k == ClientIDOf(call'[c])
            IN  (Starts(c) /\ LiveToken(k)) =>
                   /\ call'[c].pc = "send"
                   /\ call'[c].how = "hit"
                   /\ call'[c].accessToken = cache[k].value
                   /\ tokenCount' = tokenCount
                   /\ flight' = flight]_vars
    /\ [](\A c \in Callers :
            /\ call[c].sent <= 1
            /\ (call[c].out.Response # NoResponse) => call[c].sent = 1
            /\ (Sequential(c) /\ call[c].pc = "done"
                  /\ \A k \in Keys : ~disturbed[k])
                 => /\ tokenCount[ClientIDOf(call[c])] = 1
                    /\ serverCount + exchanges.dropped = calls)

\* C1 witness: the second of two sequential calls of one identity was served
\* from the cache: one token request, two resource-server requests.
C1_Witness ==
    \E c \in Callers :
        /\ Sequential(c)
        /\ call[c].pc = "done" /\ call[c].how = "hit"
        /\ call[c].out.Response = StatusOK
        /\ calls = 2 /\ serverCount = 2
        /\ tokenCount[ClientIDOf(call[c])] = 1

\* The calls in progress or returned whose resolved identity is k.
CallsOf(k) == { c \in Callers : call[c].pc # "idle" /\ ClientIDOf(call[c]) = k }

\* Every call made so far was launched for k on an empty cache while the
\* load of k was running: one call started the load, the others joined it.
Concurrent(k) ==
    /\ calls = Cardinality(CallsOf(k))
    /\ \A c \in CallsOf(k) : call[c].how \in {"lead", "join"}
    /\ Cardinality({ c \in CallsOf(k) : call[c].how = "lead" }) = 1

\* C2: calls launched concurrently for one identity on an empty cache share
\* one token request and its result (token or error).  More generally,
\* while the first token of an identity has neither expired nor been
\* removed and no load failed, the token endpoint has been asked at most
\* once for it, however many calls ran concurrently; every such call holds
\* that one token, reaches the resource server once, and is not rejected
\* while the token is valid.
C2_Collapse ==
    \A k \in Keys :
      /\ Concurrent(k) =>
            /\ tokenCount[k] <= 1
            /\ \A c, d \in CallsOf(k) :
                 (call[c].pc \notin {"fetch", "wait"} /\ call[d].pc \notin {"fetch", "wait"})
                    => /\ call[c].accessToken = call[d].accessToken
                       /\ call[c].tokErr = call[d].tokErr
      /\ ~disturbed[k] =>
            /\ tokenCount[k] <= 1
            /\ \A c \in Callers :
                 (ClientIDOf(call[c]) = k /\ call[c].pc \in {"send", "remove", "done"}) =>
                    /\ tokenCount[k] = 1
                    /\ call[c].tokErr = Nil
                    /\ call[c].accessToken = cache[k].value
                    /\ call[c].out.Error \in {Nil, "SendError"}
                    /\ (call[c].out.Response # NoResponse) => call[c].sent = 1
                    /\ validToken(call[c].accessToken)
                         => call[c].out.Response # StatusUnauthorized

\* C2 witness: two concurrent calls of one identity on an empty cache, one
\* started the load and the other joined it; both succeeded.
C2_Witness ==
    \E c, d \in Callers :
        /\ c # d /\ ClientIDOf(call[c]) = ClientIDOf(call[d])
        /\ call[c].how = "lead" /\ call[d].how = "join"
        /\ call[c].pc = "done" /\ call[d].pc = "done"
        /\ call[c].out.Response = StatusOK /\ call[d].out.Response = StatusOK
        /\ tokenCount[ClientIDOf(call[c])] = 1 /\ serverCount = 2 /\ calls = 2

\* Caller c returns from group.Remove in this step, without a Remove error.
Removed(c) ==
    call[c].pc = "remove" /\ call'[c].pc = "done" /\ ~call'[c].removeErr

\* C3: the call that observes the revoked token returns the bad status
\* without a token request, and the call of the same identity that
\* immediately follows it fetches a new token.
C3_SelfHeal ==
    [][\A c \in Callers :
         /\ Removed(c) =>
              /\ call'[c].out.Response = call[c].resp
              /\ call'[c].out.Error = Nil
              /\ (call[c].how = "hit" => tokenCount' = tokenCount)
         /\ (/\ Starts(c) /\ Sequential(c)
             /\ call[c].pc = "done" /\ IsBadTokenStatus(call[c].resp)
             /\ ~call[c].removeErr
             /\ ClientIDOf(call'[c]) = ClientIDOf(call[c]))
              => call'[c].pc = "fetch"]_vars

\* C4: after a bad-token status the entry of the identity resolved for the
\* call is gone from the cache.
C4_EvictsResolvedIdentity ==
    [][\A c \in Callers :
         Removed(c) => ~cache'[ClientIDOf(call[c])].present]_vars

\* C5: a call that received a bad-token status returns that response with a
\* nil error, whether or not group.Remove failed.
C5_BadStatusReturned ==
    \A c \in Callers :
        (call[c].pc = "done" /\ call[c].sent > 0 /\ IsBadTokenStatus(call[c].resp)) =>
            /\ call[c].out.Response = call[c].resp
            /\ call[c].out.Error = Nil

\* C5 witness: a call returned 401 to its caller although group.Remove failed.
C5_Witness ==
    \E c \in Callers :
        /\ call[c].pc = "done" /\ call[c].removeErr
        /\ call[c].out.Response = StatusUnauthorized /\ call[c].out.Error = Nil

\* C6: a call whose getToken failed has returned: no response, the error,
\* and no request to the resource server.
C6_TokenFailure ==
    \A c \in Callers :
        call[c].tokErr # Nil =>
            /\ call[c].pc = "done"
            /\ call[c].out.Response = NoResponse
            /\ call[c].out.Error = call[c].tokErr
            /\ call[c].sent = 0
            /\ call[c].accessToken = NoToken

\* C6 witness: the four token failures (unreachable, status, credentials,
\* body) each end a call; here a malformed body, with the server untouched.
C6_Witness ==
    \E c \in Callers :
        /\ call[c].pc = "done" /\ call[c].tokErr = "ParseError"
        /\ call[c].out.Error = "ParseError" /\ serverCount = 0

\* C7: while no token exchange has succeeded the cache is empty and the
\* resource server untouched, a failed load stores nothing, and a call that
\* finds no entry goes to the token endpoint (starting the load or joining
\* the one in flight); n failing sequential calls make n token requests.
C7_FailureNotCached ==
    /\ [](exchanges.ok = 0 =>
            /\ \A k \in Keys : ~cache[k].present
            /\ serverCount = 0
            /\ \A c \in Callers :
                 (Sequential(c) /\ call[c].pc = "done" /\ exchanges.lost = 0)
                    => /\ call[c].out.Error # Nil
                       /\ tokenCount[""] + tokenCount["a"] + tokenCount["b"] = calls)
    /\ [][\A c \in Callers :
            /\ (call[c].pc = "fetch" /\ call'[c].tokErr # Nil) => cache' = cache
            /\ (Starts(c) /\ ~cache[ClientIDOf(call'[c])].present)
                 => call'[c].pc \in {"fetch", "wait"}]_vars

\* C7 witness: two sequential calls failed on a malformed token body or on
\* rejected credentials: two token requests, no resource-server request.
C7_Witness ==
    \E c \in Callers :
        /\ Sequential(c) /\ call[c].pc = "done" /\ calls = 2
        /\ call[c].tokErr \in {"ParseError", "StatusError401"}
        /\ exchanges = [ok |-> 0, lost |-> 0, dropped |-> 0]
        /\ tokenCount[ClientIDOf(call[c])] = 2 /\ serverCount = 0

\* The expiry instant of an entry for the effective soft-expire margin.
SoftDeadline(e) == e.at + e.ttl - options.SoftExpireInSeconds

\* C8: a token with time-to-live T above the soft-expire margin S, fetched
\* at t0, is stored with expiry t0 + T - S; a call before that instant is
\* served it without a token request, a call at or after it is not served
\* from the cache.
C8_Expiry ==
    /\ [](\A k \in Keys :
            (cache[k].present /\ cache[k].ttl > options.SoftExpireInSeconds)
               => cache[k].expire = SoftDeadline(cache[k]))
    /\ [][\A c \in Callers :
            LET k == ClientIDOf(call'[c])
            IN  (Starts(c) /\ cache[k].present
                   /\ cache[k].ttl > options.SoftExpireInSeconds) =>
                  IF now < SoftDeadline(cache[k])
                  THEN /\ call'[c].how = "hit"
                       /\ call'[c].accessToken = cache[k].value
                       /\ flight' = flight
                  ELSE call'[c].pc \in {"fetch", "wait"}]_vars

\* C8 witness: with no revocation and no failure, a second token was
\* fetched once the first had reached its expiry instant.
C8_Witness ==
    \E k \in Keys :
        /\ cache[k].present /\ cache[k].at > 0
        /\ cache[k].ttl > options.SoftExpireInSeconds
        /\ tokenCount[k] = 2 /\ exchanges = [ok |-> 2, lost |-> 0, dropped |-> 0]
        /\ gen[k] = 0 /\ serverCount = 2

\* C9: a token declared without expires_in is not stored with an expiry
\* before its fetch time.
C9_ZeroTTLNotInPast ==
    \A k \in Keys :
        (cache[k].present /\ cache[k].ttl = 0) => cache[k].expire >= cache[k].at

\* C10: the margin between a stored token's hard expiry and its stored
\* expiry is 10 for SoftExpireInSeconds 0, 0 for -1, and the configured
\* value when positive.
C10_SoftExpireMargin ==
    LET margin == IF opt.SoftExpireInSeconds = 0 THEN 10
                  ELSE IF opt.SoftExpireInSeconds = -1 THEN 0
                  ELSE opt.SoftExpireInSeconds
    IN  /\ options.SoftExpireInSeconds = margin
        /\ \A k \in Keys :
              (cache[k].present /\ cache[k].ttl > 0)
                 => cache[k].at + cache[k].ttl - cache[k].expire = margin

\* C10 witness: a token stored under the default margin of 10 seconds.
C10_Witness ==
    \E k \in Keys :
        /\ opt.SoftExpireInSeconds = 0
        /\ cache[k].present /\ cache[k].ttl = 12
        /\ cache[k].expire = cache[k].at + 2

\* The client id and secret a request resolves to, read from the headers
\* and the configuration alone.
ResolvedID(h) ==
    IF ~options.GetCredentialsFromRequestHeader THEN StaticClientID
    ELSE IF h.id = "" /\ ~options.DontFallbackToStatic THEN StaticClientID
    ELSE h.id

ResolvedSecret(h) ==
    IF ~options.GetCredentialsFromRequestHeader THEN StaticClientSecret
    ELSE IF h.secret = "" /\ ~options.DontFallbackToStatic THEN StaticClientSecret
    ELSE h.secret

\* C11: a call that resolves a client id holding an unexpired entry is
\* served the cached token and makes no token request, whatever secret it
\* resolves; a token request carries the secret of the call that started
\* the load, so a load succeeds only with that client's registered secret.
C11_KeyIsClientID ==
    [][\A c \in Callers :
         /\ (/\ Starts(c)
             /\ cache[ResolvedID(call'[c].hdr)].present
             /\ now < cache[ResolvedID(call'[c].hdr)].expire)
              => /\ call'[c].how = "hit"
                 /\ call'[c].accessToken = cache[ResolvedID(call'[c].hdr)].value
                 /\ call'[c].pc = "send"
                 /\ tokenCount' = tokenCount
                 /\ cache' = cache
         /\ (call[c].pc = "fetch" /\ call'[c].pc = "send")
              => ResolvedSecret(call[c].hdr) = Registered(ResolvedID(call[c].hdr))]_vars

\* C11 witness: a call for client id b carrying no secret header (it
\* resolves a secret other than b's) was served b's cached token.
C11_Witness ==
    \E c \in Callers :
        /\ call[c].hdr = [id |-> "b", secret |-> ""]
        /\ ResolvedSecret(call[c].hdr) # Registered("b")
        /\ call[c].how = "hit" /\ call[c].pc = "done"
        /\ call[c].accessToken.id = "b"
        /\ call[c].out.Response = StatusOK
        /\ tokenCount["b"] = 1

\* C12: with header-based resolution disabled, every call uses the static
\* client id as cache key and the static pair in the token request,
\* whatever headers the request carries.
C12_StaticMode ==
    ~options.GetCredentialsFromRequestHeader =>
        /\ \A k \in Keys \ {StaticClientID} :
              /\ ~cache[k].present
              /\ ~flight[k].active
              /\ tokenCount[k] = 0
        /\ \A c \in Callers :
              /\ call[c].pc \in {"fetch", "wait"} => flight[StaticClientID].active
              /\ call[c].accessToken \in {NoToken} \cup
                    { [id |-> StaticClientID, gen |-> g] : g \in 0..MaxRevocations }
              /\ call[c].out.ClientID \in {"", StaticClientID}

\* C12 witness: in static mode a request carrying another client's
\* credential headers was served with the static client's token.
C12_Witness ==
    \E c \in Callers :
        /\ ~options.GetCredentialsFromRequestHeader
        /\ call[c].hdr = [id |-> "b", secret |-> "sb"]
        /\ call[c].pc = "done" /\ call[c].out.Response = StatusOK
        /\ call[c].accessToken.id = StaticClientID
        /\ call[c].out.ClientID = StaticClientID
        /\ tokenCount[StaticClientID] = 1

\* C13: with header resolution on and fallback allowed, the client id is
\* the id header or, when that is empty, the static id, and the secret is
\* the secret header or, when that is empty, the static secret, each on its
\* own: the id is the key loaded and reported, and the load the call runs
\* is rejected by the token endpoint exactly when the secret so resolved is
\* not the one registered for that id.  A call without credential headers
\* is never rejected on its own load or on a cached token; a call that
\* joins a load in flight shares the result of the secret that load used.
C13_IndependentFallback ==
    (options.GetCredentialsFromRequestHeader /\ ~options.DontFallbackToStatic) =>
      \A c \in Callers :
        LET r      == call[c].given
            id     == IF r.id = "" THEN StaticClientID ELSE r.id
            secret == IF r.secret = "" THEN StaticClientSecret ELSE r.secret
        IN  call[c].pc # "idle" =>
              /\ call[c].pc \in {"fetch", "wait"} => flight[id].active
              /\ (call[c].pc \in {"send", "remove", "done"} /\ call[c].tokErr = Nil)
                   => /\ call[c].out.ClientID = id
                      /\ call[c].accessToken.id = id
              /\ (call[c].how = "lead" /\ call[c].pc # "fetch") =>
                   IF secret = Registered(id)
                   THEN call[c].tokErr # "StatusError401"
                   ELSE call[c].tokErr \in {"StatusError401", "TransportError"}
              /\ (r.id = "" /\ r.secret = "" /\ call[c].how # "join")
                   => call[c].tokErr # "StatusError401"

\* C13 witness: the id header was empty and the secret header carried the
\* static client's secret: the call used the static id with the header's
\* secret and succeeded.
C13_Witness ==
    \E c \in Callers :
        /\ options.GetCredentialsFromRequestHeader /\ ~options.DontFallbackToStatic
        /\ call[c].given.id = "" /\ call[c].given.secret = "sa"
        /\ call[c].how = "lead" /\ call[c].pc = "done"
        /\ call[c].out = [ClientID |-> StaticClientID, Response |-> StatusOK, Error |-> Nil]

\* A request without any credential header, under fallback, succeeded with
\* the static identity.
C13_NoHeadersWitness ==
    \E c \in Callers :
        /\ options.GetCredentialsFromRequestHeader /\ ~options.DontFallbackToStatic
        /\ call[c].given.id = "" /\ call[c].given.secret = ""
        /\ call[c].how = "lead" /\ call[c].pc = "done"
        /\ call[c].out = [ClientID |-> StaticClientID, Response |-> StatusOK, Error |-> Nil]

\* C14: with header resolution on and fallback disabled, a missing header
\* resolves to the empty string and the call goes on to the cache with it
\* (no resolution error); the load it runs is rejected by the token
\* endpoint, the call returns that error and no response, and the resource
\* server receives nothing from it.  With the id header missing no call
\* ever obtains a token.
C14_NoFallback ==
    (options.GetCredentialsFromRequestHeader /\ options.DontFallbackToStatic) =>
      \A c \in Callers :
        LET r == call[c].given
        IN  (call[c].pc # "idle" /\ (r.id = "" \/ r.secret = "")) =>
              /\ call[c].pc \in {"fetch", "wait"} => flight[r.id].active
              /\ (call[c].how = "lead" \/ r.id = "") =>
                   /\ call[c].pc \in {"fetch", "wait", "done"}
                   /\ call[c].sent = 0
                   /\ call[c].accessToken = NoToken
                   /\ call[c].pc = "done" =>
                        /\ call[c].tokErr \in {"StatusError401", "TransportError"}
                        /\ call[c].out.Error = call[c].tokErr
                        /\ call[c].out.Response = NoResponse

\* C14 witness: a request without credential headers, fallback disabled,
\* failed at the token endpoint with status 401; the resource server
\* received nothing.
C14_Witness ==
    \E c \in Callers :
        /\ options.GetCredentialsFromRequestHeader /\ options.DontFallbackToStatic
        /\ call[c].given.id = "" /\ call[c].given.secret = ""
        /\ call[c].pc = "done" /\ call[c].out.Error = "StatusError401"
        /\ call[c].out.Response = NoResponse
        /\ tokenCount[""] = 1 /\ serverCount = 0

\* Call c has handed its request to the transport (the transport answered
\* or failed).
Transported(c) ==
    call[c].pc \in {"remove", "done"} /\ call[c].tokErr = Nil

\* C15: with header resolution on, the request handed to the transport has
\* no secret header unless ForwardHeaderClientSecret and has the id header
\* it came with unless PreventForwardingHeaderClientID, each setting on its
\* own.
C15_HeaderForwarding ==
    options.GetCredentialsFromRequestHeader =>
      \A c \in Callers :
        Transported(c) =>
          /\ call[c].req.secret = IF options.ForwardHeaderClientSecret
                                  THEN call[c].given.secret ELSE ""
          /\ call[c].req.id = IF options.PreventForwardingHeaderClientID
                              THEN "" ELSE call[c].given.id

\* C15 witness: secret forwarded and id withheld, the one combination in
\* which the two settings both differ from their defaults.
C15_Witness ==
    \E c \in Callers :
        /\ options.GetCredentialsFromRequestHeader
        /\ options.ForwardHeaderClientSecret
        /\ options.PreventForwardingHeaderClientID
        /\ call[c].given.id = "b" /\ call[c].given.secret = "sb"
        /\ call[c].pc = "done" /\ call[c].out.Response = StatusOK
        /\ call[c].req.id = "" /\ call[c].req.secret = "sb"

\* The default forwarding: the secret header removed, the id header kept.
C15_DefaultWitness ==
    \E c \in Callers :
        /\ options.GetCredentialsFromRequestHeader
        /\ ~options.ForwardHeaderClientSecret
        /\ ~options.PreventForwardingHeaderClientID
        /\ call[c].given.id = "b" /\ call[c].given.secret = "sb"
        /\ call[c].pc = "done" /\ call[c].out.Response = StatusOK
        /\ call[c].req.id = "b" /\ call[c].req.secret = ""

\* C16: the request keeps its method, URL and body; a credential header is
\* either as it came or removed, and is as it came when header resolution
\* is off; the request handed to the transport carries Authorization
\* "Bearer" with the token obtained for the resolved identity, whatever
\* Authorization it came with; until then, and when no token is obtained,
\* Authorization is as it came.
C16_RequestFrame ==
    \A c \in Callers :
        LET r == call[c].req
            g == call[c].given
        IN  call[c].pc # "idle" =>
              /\ r.Method = g.Method /\ r.URL = g.URL /\ r.Body = g.Body
              /\ r.id \in {g.id, ""} /\ r.secret \in {g.secret, ""}
              /\ ~options.GetCredentialsFromRequestHeader
                   => (r.id = g.id /\ r.secret = g.secret)
              /\ IF Transported(c)
                 THEN /\ r.Authorization = Bearer(call[c].accessToken)
                      /\ call[c].accessToken # NoToken
                      /\ call[c].accessToken.id = ResolvedID(HeadersOf(g))
                 ELSE r.Authorization = g.Authorization
              /\ call[c].tokErr # Nil => r = g

\* C16 witness: a POST that came with an Authorization header of the
\* caller's reached the resource server with the Bearer token instead, its
\* method, URL and body as they came.
C16_Witness ==
    \E c \in Callers :
        /\ call[c].given.Authorization = CallerAuthorization
        /\ call[c].given.Method = "POST"
        /\ call[c].pc = "done" /\ call[c].out.Response = StatusOK
        /\ call[c].req.Authorization = Bearer([id |-> StaticClientID, gen |-> 0])
        /\ call[c].req.Method = "POST" /\ call[c].req.URL = "v"
        /\ call[c].req.Body = "x"

\* C17: when the transport fails on the decorated request the call ends
\* with the transport error and no response, and neither the token endpoint
\* nor the resource server is contacted by that step; if it was the first
\* call, the token endpoint has been contacted once and the resource server
\* not at all.
C17_SendFailure ==
    /\ [][\A c \in Callers :
            (/\ call[c].pc = "send" /\ call'[c] # call[c]
             /\ exchanges'.dropped = exchanges.dropped + 1)
              => /\ call'[c].pc = "done"
                 /\ call'[c].out.Error = "SendError"
                 /\ call'[c].out.Response = NoResponse
                 /\ call'[c].sent = 0
                 /\ tokenCount' = tokenCount
                 /\ serverCount' = serverCount
                 /\ cache' = cache]_vars
    /\ []((calls = 1 /\ exchanges.dropped = 1) =>
            /\ tokenCount[""] + tokenCount["a"] + tokenCount["b"] = 1
            /\ serverCount = 0)

\* C17 witness: the first call obtained a token and the transport failed.
C17_Witness ==
    \E c \in Callers :
        /\ calls = 1 /\ call[c].pc = "done"
        /\ call[c].out.Error = "SendError" /\ call[c].out.Response = NoResponse
        /\ call[c].accessToken # NoToken
        /\ tokenCount[ResolvedID(call[c].hdr)] = 1 /\ serverCount = 0

\* C18: every call that has returned reports the resolved client id in its
\* Output: with no response and the error when obtaining the token failed,
\* with the response and a nil error when a response was received.
C18_ClientIDReported ==
    \A c \in Callers :
        call[c].pc = "done" =>
            /\ call[c].out.ClientID = ResolvedID(call[c].hdr)
            /\ call[c].tokErr # Nil =>
                 (call[c].out.Response = NoResponse /\ call[c].out.Error = call[c].tokErr)
            /\ call[c].out.Response # NoResponse => call[c].out.Error = Nil

\* Token requests received by the token endpoint, over all client ids.
TokenRequests == tokenCount[""] + tokenCount["a"] + tokenCount["b"]

\* C19: a call sends at most one request to the resource server and runs
\* at most one token fetch: a step adds at most one token request, made by
\* a call that thereby leaves its fetch, and no call enters a fetch except
\* on entry; once a call has its response, bad-token status included, it
\* sends nothing more and keeps its token and response until it returns,
\* and only a later call is handed another token.
C19_NoRetry ==
    /\ [](\A c \in Callers : call[c].sent <= 1)
    /\ [][/\ TokenRequests' \in {TokenRequests, TokenRequests + 1}
          /\ TokenRequests' # TokenRequests =>
               \E c \in Callers :
                   call[c].pc = "fetch" /\ call'[c].pc \in {"send", "done"}
          /\ \A c \in Callers :
               /\ (~Starts(c) /\ call[c].pc # "fetch") => call'[c].pc # "fetch"
               /\ (~Starts(c) /\ call[c].pc \in {"remove", "done"}) =>
                    /\ call'[c].pc \in {"remove", "done"}
                    /\ call'[c].sent = call[c].sent
                    /\ call'[c].accessToken = call[c].accessToken
                    /\ call'[c].req = call[c].req
                    /\ call'[c].out.Response = call[c].out.Response]_vars

\* C19 witness: a call was answered 401 with the revoked token and returned
\* it; the next call fetched the new token and was answered 200: two
\* resource requests for two calls.
C19_Witness ==
    \E c \in Callers :
        /\ Sequential(c) /\ calls = 2 /\ gen[StaticClientID] = 1
        /\ call[c].pc = "done" /\ call[c].how = "lead" /\ call[c].sent = 1
        /\ call[c].out.Response = StatusOK
        /\ call[c].accessToken = [id |-> StaticClientID, gen |-> 1]
        /\ serverCount = 2 /\ tokenCount[StaticClientID] = 2

\* C20: when a caller taking part in the collapsed load of a client id
\* cancels its context, the load is not cancelled: only a caller that
\* cancelled its own context is returned the cancellation error by
\* getToken, whichever caller cancelled, the one that started the load or
\* one that joined it.
C20_CancelIsolated ==
    \A c \in Callers :
        call[c].tokErr = "ContextCanceled" => call[c].cancelled

\* ---------------------------------------------------------- eviction races

\* Caller c's group.Remove returns in this step.
Evicts(c) == call[c].pc = "remove" /\ call'[c] # call[c]

\* The load in flight for key k completes in this step.
Completes(k) == flight[k].active /\ ~flight'[k].active

\* C21: group.Remove of a key while a load of that key is in flight touches
\* the entry only: the load is neither aborted nor restarted and no other
\* call is affected; when the load completes with a token, the token the
\* endpoint issued is stored under the key with the Getter's expiry; an
\* eviction that returns without error leaves no entry, so one after the
\* race removes what the load stored; and a call arriving while the load is
\* in flight joins it, so the token endpoint is asked once per load: the
\* only further request is the one after a later eviction.
C21_EvictionRace ==
    /\ [][\A c \in Callers :
            Evicts(c) =>
              /\ flight' = flight
              /\ tokenCount' = tokenCount
              /\ \A d \in Callers \ {c} : call'[d] = call[d]
              /\ ~call'[c].removeErr => ~cache'[RemoveKey(call[c])].present]_vars
    /\ [][\A k \in Keys :
            (Completes(k) /\ exchanges'.ok = exchanges.ok + 1) =>
              LET id == fetchCredentials(InfoOf(call[flight[k].leader])).id
              IN  /\ cache'[k].present
                  /\ cache'[k].value = [id |-> id, gen |-> gen[id]]
                  /\ cache'[k].expire = GetterExpire(now, expireIn)
                  /\ tokenCount'[id] = tokenCount[id] + 1]_vars
    /\ [][\A c \in Callers :
            LET k == ClientIDOf(call'[c])
            IN  (Starts(c) /\ flight[k].active /\ ~CacheHit(k)) =>
                   /\ call'[c].how = "join"
                   /\ flight' = flight
                   /\ tokenCount' = tokenCount]_vars
    /\ [][\A id \in Keys :
            tokenCount'[id] # tokenCount[id] =>
              /\ tokenCount'[id] = tokenCount[id] + 1
              /\ \E k \in Keys : Completes(k)]_vars

\* C21 witness: of two calls, one evicted the static client's key while the
\* other's load of that key was in flight; the load then completed and its
\* token is the entry now in the cache.
C21_Witness ==
    \E c, d \in Callers :
        /\ c # d /\ calls = 2
        /\ call[c].pc = "done" /\ call[c].raced /\ ~call[c].removeErr
        /\ call[d].how = "lead" /\ ClientIDOf(call[d]) = RemoveKey(call[c])
        /\ call[d].tokErr = Nil /\ call[d].pc \in {"send", "done"}
        /\ cache[RemoveKey(call[c])].present
        /\ cache[RemoveKey(call[c])].value = call[d].accessToken

\* After such a race a later eviction removed the entry the load had stored:
\* the second caller evicted during the first caller's load, the first
\* caller's next call was answered 401 and evicted again.
C21_LaterEvictionWitness ==
    /\ calls = 3 /\ exchanges.ok = 2
    /\ call[2].pc = "done" /\ call[2].raced /\ ~call[2].removeErr
    /\ call[1].pc = "done" /\ IsBadTokenStatus(call[1].resp)
    /\ ~call[1].raced /\ ~call[1].removeErr
    /\ tokenCount[StaticClientID] = 1
    /\ ~cache[StaticClientID].present

\* ------------------------------------------------------ distinct identities

\* The calls blocked in group.Get on a load for client id `id`.
Fetching(id) ==
    { c \in Callers : call[c].pc = "fetch" /\ ResolvedID(call[c].hdr) = id }

\* C22: a call is blocked in group.Get only by a load for its own client
\* id: a waiting call waits for a running load of the id it resolved, a
\* call that finds no load of its id in flight never waits, a call holding
\* a load or a token can always take its next step whatever loads of other
\* ids are in flight, and the completion of a load changes nothing of the
\* calls, loads and entries of other ids.
C22_DistinctIdsIndependent ==
    /\ [](\A c \in Callers :
            /\ call[c].pc = "wait" =>
                  \E d \in Fetching(ResolvedID(call[c].hdr)) :
                     d # c /\ flight[ClientIDOf(call[c])] = [active |-> TRUE, leader |-> d]
            /\ call[c].pc = "fetch" => ENABLED Exchange(c)
            /\ call[c].pc = "send" => ENABLED Send(c))
    /\ [][\A c \in Callers :
            (Starts(c) /\ Fetching(ResolvedID(call'[c].hdr)) = {})
               => call'[c].pc # "wait"]_vars
    /\ [][\A k \in Keys :
            Completes(k) =>
              /\ \A d \in Callers :
                    ResolvedID(call[d].hdr) # ResolvedID(call[flight[k].leader].hdr)
                       => call'[d] = call[d]
              /\ \A j \in Keys \ {k} :
                    flight'[j] = flight[j] /\ cache'[j] = cache[j]]_vars

\* C22 witness: a call for the static client obtained its token by its own
\* load and completed with 200, and the load for client id b is in flight.
C22_Witness ==
    \E c, d \in Callers :
        /\ ResolvedID(call[c].hdr) = StaticClientID /\ ResolvedID(call[d].hdr) = "b"
        /\ call[d].pc = "fetch" /\ flight["b"] = [active |-> TRUE, leader |-> d]
        /\ call[c].how = "lead" /\ call[c].pc = "done"
        /\ call[c].out = [ClientID |-> StaticClientID, Response |-> StatusOK, Error |-> Nil]

\* The loads of two client ids are in flight at the same time.
C22_BothInFlightWitness ==
    \E c, d \in Callers :
        /\ call[c].pc = "fetch" /\ call[d].pc = "fetch"
        /\ ResolvedID(call[c].hdr) = StaticClientID /\ ResolvedID(call[d].hdr) = "b"
        /\ flight[StaticClientID].active /\ flight["b"].active

\* ------------------------------------------------- eviction and the caller

\* Caller c has been handed the response of the resource server by c.send.
Responded(c) == call[c].sent > 0 /\ call[c].out.Response # NoResponse

\* C23: the call that observed a bad-token status is not held by the
\* removal: once c.send has returned the response, the call has returned
\* it, whether or not group.Remove has finished.
C23_ReturnsWithoutRemoval ==
    \A c \in Callers : Responded(c) => call[c].pc = "done"

\* ---------------------------------------------------------- shared outcome

\* The calls blocked in group.Get on the load of key k: the call that
\* started it and the calls that joined it.
Collapsed(k) ==
    { c \in Callers : call[c].pc \in {"fetch", "wait"} /\ ClientIDOf(call[c]) = k }

\* C24: when the load of a key completes, every call collapsed into it
\* returns from getToken with the outcome of that one fetch: all of them
\* hold the same access token, the one the load stored, and go on to send,
\* or all of them return the same error and no response.
C24_SharedOutcome ==
    [][\A k \in Keys :
         Completes(k) =>
           \A c, d \in Collapsed(k) :
             /\ call'[c].pc \notin {"fetch", "wait"}
             /\ call'[c].accessToken = call'[d].accessToken
             /\ call'[c].tokErr = call'[d].tokErr
             /\ call'[c].out.Error = call'[d].out.Error
             /\ call'[c].pc = call'[d].pc
             /\ IF call'[c].tokErr = Nil
                THEN /\ call'[c].pc = "send"
                     /\ call'[c].accessToken = cache'[k].value
                     /\ call'[c].accessToken # NoToken
                ELSE /\ call'[c].pc = "done"
                     /\ call'[c].out.Error = call'[c].tokErr
                     /\ call'[c].out.Response = NoResponse
                     /\ call'[c].accessToken = NoToken]_vars

\* C24 witness: two calls collapsed into one fetch that the token endpoint
\* answered with a status outside the accepted range: both returned that
\* error, after one token request.
C24_Witness ==
    \E c, d \in Callers :
        /\ c # d /\ ClientIDOf(call[c]) = ClientIDOf(call[d]) /\ calls = 2
        /\ call[c].how = "lead" /\ call[d].how = "join"
        /\ call[c].pc = "done" /\ call[d].pc = "done"
        /\ call[c].out.Error = "StatusError" /\ call[d].out.Error = "StatusError"
        /\ tokenCount[ClientIDOf(call[c])] = 1 /\ serverCount = 0

\* Two calls collapsed into one fetch hold the token it stored.
C24_TokenWitness ==
    \E c, d \in Callers :
        /\ c # d /\ ClientIDOf(call[c]) = ClientIDOf(call[d]) /\ calls = 2
        /\ call[c].how = "lead" /\ call[d].how = "join"
        /\ call[c].pc = "send" /\ call[d].pc = "send"
        /\ call[c].accessToken = call[d].accessToken
        /\ call[c].accessToken = cache[ClientIDOf(call[c])].value
        /\ tokenCount[ClientIDOf(call[c])] = 1

\* ------------------------------------------------------ one fetch per id

\* C25: in every state at most one call per client id is running the token
\* fetch, every other call blocked in group.Get for that id waits for it,
\* and a step adds at most one token request in all, whether the load is
\* the first of the id or a refresh after expiry or eviction.
C25_OneFetchPerID ==
    /\ [](\A id \in Keys :
            /\ Cardinality(Fetching(id)) <= 1
            /\ \A c \in Callers :
                  (call[c].pc = "wait" /\ ResolvedID(call[c].hdr) = id)
                     => Cardinality(Fetching(id)) = 1)
    /\ [][\E id \in Keys :
            \A j \in Keys \ {id} :
               /\ tokenCount'[j] = tokenCount[j]
               /\ tokenCount'[id] \in {tokenCount[id], tokenCount[id] + 1}]_vars

\* C25 witness: a refresh, after the token of the client id expired, with two
\* concurrent callers: one runs the fetch, the other waits for it.
C25_Witness ==
    \E c, d \in Callers : \E id \in Ids :
        /\ call[c].pc = "fetch" /\ call[d].pc = "wait"
        /\ ResolvedID(call[c].hdr) = id /\ ResolvedID(call[d].hdr) = id
        /\ Fetching(id) = {c}
        /\ tokenCount[id] >= 1
        /\ cache[id].present /\ now >= cache[id].expire

\* ------------------------------------------------------ eviction trigger

\* C27: an entry leaves the cache only in the step in which group.Remove
\* returns to a call that received a response with status 401; a call is
\* in group.Remove only after such a response; a response with any other
\* status, or a transport failure, ends the call with the cache as it was;
\* and the next call of the identity, nothing else having touched the
\* cache, is served the same token without a token request.
C27_EvictOnlyOnBadStatus ==
    /\ [](\A c \in Callers :
            call[c].pc = "remove" =>
               /\ Responded(c)
               /\ call[c].resp = StatusUnauthorized
               /\ call[c].out.Response = StatusUnauthorized)
    /\ [][\A k \in Keys :
            (cache[k].present /\ ~cache'[k].present) =>
               \E c \in Callers :
                  /\ Evicts(c) /\ Responded(c)
                  /\ call[c].resp = StatusUnauthorized]_vars
    /\ [][\A c \in Callers :
            (call[c].pc = "send" /\ call'[c] # call[c]
               /\ call'[c].resp # StatusUnauthorized)
              => /\ call'[c].pc = "done"
                 /\ cache' = cache
                 /\ call'[c].out.Response = call'[c].resp]_vars
    /\ [][\A c \in Callers :
            (/\ Starts(c) /\ Sequential(c)
             /\ call[c].pc = "done" /\ call[c].tokErr = Nil
             /\ call[c].resp # StatusUnauthorized
             /\ ClientIDOf(call'[c]) = ClientIDOf(call[c]))
              => /\ call'[c].how = "hit"
                 /\ call'[c].accessToken = call[c].accessToken
                 /\ call'[c].pc = "send"
                 /\ tokenCount' = tokenCount]_vars

\* C27 witness: three sequential calls of one identity, one lost in
\* transport, one answered with a status other than 401, the third served
\* from the cache and answered 403: one token request in all, and the
\* token is still in the cache.
C27_Witness ==
    \E c \in Callers :
        /\ Sequential(c) /\ calls = 3
        /\ exchanges.dropped = 1 /\ serverCount = 2
        /\ call[c].pc = "done" /\ call[c].how = "hit"
        /\ call[c].out.Response = 403 /\ call[c].out.Error = Nil
        /\ tokenCount[ClientIDOf(call[c])] = 1
        /\ cache[ClientIDOf(call[c])].present
        /\ cache[ClientIDOf(call[c])].value = call[c].accessToken

\* -------------------------------------------------- token response status

\* The token endpoint has answered the load.
Loaded == tokenResponse # NoTokenResponse

\* The status range in force: the configured bounds, 200 and 299 where left
\* unset.
RangeMin == IF opt.HTTPStatusOkMin = 0 THEN 200 ELSE opt.HTTPStatusOkMin
RangeMax == IF opt.HTTPStatusOkMax = 0 THEN 299 ELSE opt.HTTPStatusOkMax

Accepted == RangeMin <= tokenResponse.status /\ tokenResponse.status <= RangeMax

\* The load left the entry of the static client's key as it was.
EntryKept ==
    LET old == cache[StaticClientID]
        new == cache'[StaticClientID]
    IN  /\ new.present = old.present
        /\ new.expire = old.expire /\ new.at = old.at /\ new.ttl = old.ttl
        /\ old.present => new.value = old.value
        /\ \A k \in Keys \ {StaticClientID} : ~cache'[k].present

\* The fetch failed on the status of the response.
StatusFailure == tokenInfo.err.msg = "bad token server response http status"

\* C26: the fetch fails on the status exactly when the status is outside
\* the range in force, both bounds being inside; the error then carries the
\* status code and the body as received, no token is returned, and the
\* load leaves the cache as it was.
C26_StatusRange ==
    /\ [](Loaded =>
            /\ StatusFailure <=> ~Accepted
            /\ StatusFailure =>
                  /\ tokenInfo.err.status = tokenResponse.status
                  /\ tokenInfo.err.body = tokenResponse.body
                  /\ tokenInfo.accessToken = <<>>
                  /\ tokenInfo.expiresIn = 0)
    /\ [][(~Loaded /\ Loaded' /\ ~Accepted') => EntryKept]_vars

\* C26 witness: under the default range a response with status 300 and a
\* well-formed token was refused with the status error quoting 300, and the
\* expired entry is still what the cache holds.
C26_Witness ==
    /\ opt.HTTPStatusOkMin = 0 /\ opt.HTTPStatusOkMax = 0
    /\ tokenResponse.status = 300
    /\ tokenResponse.body.access_token = JString(<<"a", "b", "c">>)
    /\ tokenResponse.body.expires_in = JNumber(3000)
    /\ StatusFailure /\ tokenInfo.err.status = 300
    /\ cache[StaticClientID].present /\ cache[StaticClientID].value = StaleEntry.value

\* Under the default range a response with status 299 was accepted and its
\* token stored.
C26_UpperBoundWitness ==
    /\ opt.HTTPStatusOkMin = 0 /\ opt.HTTPStatusOkMax = 0
    /\ tokenResponse.status = 299
    /\ tokenInfo.err = NoError
    /\ cache[StaticClientID].present
    /\ cache[StaticClientID].value = <<"a", "b", "c">>

\* ------------------------------------------------------------- parseToken

\* The body the load parsed is a JSON object whose access_token is a
\* non-empty string.
GoodToken ==
    /\ Loaded /\ Accepted
    /\ tokenResponse.body.kind = "object"
    /\ tokenResponse.body.access_token.type = "string"
    /\ tokenResponse.body.access_token.chars # <<>>

\* The tokenInfo of a successful parse.
Parsed(accessToken, seconds) ==
    [err |-> Nil, accessToken |-> accessToken, expiresIn |-> seconds]

\* C28: for a JSON object with a non-empty string access_token, parseToken
\* succeeds with that token and a time-to-live of 0 when expires_in is
\* absent, and of n seconds when expires_in is the integer number n or the
\* decimal string of n; the number and the string of the same n parse to
\* the same tokenInfo, and the fetch hands on what parseToken returned.
C28_ExpiresInForms ==
    GoodToken =>
      LET body == tokenResponse.body
          tok  == body.access_token.chars
      IN  /\ body.expires_in = Absent =>
                /\ parseToken(body) = Parsed(tok, 0)
                /\ tokenInfo = [err |-> NoError, accessToken |-> tok, expiresIn |-> 0]
          /\ \A n \in ExpiresInIntegers :
                (body.expires_in \in {JNumber(10 * n), JString(DecimalString(n))}) =>
                   /\ parseToken(body) = Parsed(tok, n)
                   /\ tokenInfo = [err |-> NoError, accessToken |-> tok, expiresIn |-> n]
                   /\ cache[StaticClientID].ttl = n
                   /\ parseToken([body EXCEPT !.expires_in = JNumber(10 * n)])
                        = parseToken([body EXCEPT !.expires_in = JString(DecimalString(n))])

\* C28 witness: {"access_token":"abc","expires_in":"300"} was parsed to the
\* token abc with a time-to-live of 300 seconds, and stored.
C28_Witness ==
    /\ GoodToken
    /\ tokenResponse.body.access_token = JString(<<"a", "b", "c">>)
    /\ tokenResponse.body.expires_in = JString(<<"3", "0", "0">>)
    /\ tokenInfo = [err |-> NoError, accessToken |-> <<"a", "b", "c">>, expiresIn |-> 300]
    /\ cache[StaticClientID].present /\ cache[StaticClientID].ttl = 300

\* {"access_token":"abc","expires_in":300} gave the same.
C28_NumberWitness ==
    /\ GoodToken
    /\ tokenResponse.body.access_token = JString(<<"a", "b", "c">>)
    /\ tokenResponse.body.expires_in = JNumber(3000)
    /\ tokenInfo = [err |-> NoError, accessToken |-> <<"a", "b", "c">>, expiresIn |-> 300]

\* {"access_token":"abc"} gave the token with a zero time-to-live.
C28_AbsentWitness ==
    /\ GoodToken
    /\ tokenResponse.body.access_token = JString(<<"a", "b", "c">>)
    /\ tokenResponse.body.expires_in = Absent
    /\ tokenInfo = [err |-> NoError, accessToken |-> <<"a", "b", "c">>, expiresIn |-> 0]

\* The way the access_token of a JSON object fails parseToken, or "ok".
AccessTokenCase(body) ==
    IF body.access_token.type = "absent" THEN "missing"
    ELSE IF body.access_token.type # "string" THEN "wrong type"
    ELSE IF body.access_token.chars = <<>> THEN "empty"
    ELSE "ok"

\* The load parsed a body that is empty, not JSON, or an object whose
\* access_token is missing, of a non-string type or empty.
AccessTokenFailure ==
    /\ Loaded /\ Accepted
    /\ \/ tokenResponse.body.kind \in {"empty", "text"}
       \/ /\ tokenResponse.body.kind = "object"
          /\ AccessTokenCase(tokenResponse.body) # "ok"

\* C29: parseToken fails for an empty or non-JSON body and for an
\* access_token that is absent, not a string, or the empty string; each of
\* the three access_token causes has its own message, different from the
\* other two and from every other parse error; the fetch wraps the message
\* in a parse error, returns no token, and the cache is left as it was.
C29_AccessTokenErrors ==
    /\ [](AccessTokenFailure =>
            LET body == tokenResponse.body
                info == parseToken(body)
            IN  /\ info.err # Nil
                /\ info.accessToken = <<>> /\ info.expiresIn = 0
                /\ tokenInfo.err.msg = "parse token"
                /\ tokenInfo.err.cause = info.err
                /\ tokenInfo.accessToken = <<>>
                /\ body.kind \in {"empty", "text"} => info.err = Unmarshal(body).err
                /\ body.kind = "object" =>
                      /\ AccessTokenCase(body) = "missing" =>
                            info.err = "missing access_token field in token response"
                      /\ AccessTokenCase(body) = "wrong type" =>
                            info.err = "non-string value for access_token field in token response"
                      /\ AccessTokenCase(body) = "empty" =>
                            info.err = "empty access_token in token response"
                      /\ \A other \in Bodies :
                            (Unmarshal(other).err # Nil
                               \/ AccessTokenCase(other) # AccessTokenCase(body))
                              => parseToken(other).err # info.err)
    /\ [][(~Loaded /\ AccessTokenFailure') => EntryKept]_vars

\* C29 witness: {"access_token":123} was refused as a non-string value and
\* nothing was stored.
C29_Witness ==
    /\ AccessTokenFailure
    /\ tokenResponse.body.kind = "object"
    /\ tokenResponse.body.access_token = JNumber(1230)
    /\ tokenInfo.err.cause = "non-string value for access_token field in token response"
    /\ ~cache[StaticClientID].present

\* {} was refused for the missing field.
C29_MissingWitness ==
    /\ AccessTokenFailure
    /\ tokenResponse.body.kind = "object"
    /\ tokenResponse.body.access_token = Absent
    /\ tokenInfo.err.cause = "missing access_token field in token response"

\* {"access_token":""} was refused as empty.
C29_EmptyWitness ==
    /\ AccessTokenFailure
    /\ tokenResponse.body.kind = "object"
    /\ tokenResponse.body.access_token = JString(<<>>)
    /\ tokenInfo.err.cause = "empty access_token in token response"

\* An empty body was refused by the JSON decoder.
C29_EmptyBodyWitness ==
    /\ AccessTokenFailure
    /\ tokenResponse.body.kind = "empty"
    /\ tokenInfo.err.cause = "unexpected end of JSON input"

\* A string that is an optional sign followed by one or more digits.
IsNumeral(cs) ==
    LET ds == IF Len(cs) > 0 /\ cs[1] \in {"+", "-"} THEN Tail(cs) ELSE cs
    IN  Len(ds) > 0 /\ \A i \in 1..Len(ds) : IsDigit(ds[i])

\* The load parsed an object with a valid access_token whose expires_in is
\* a string that is no numeral, or a value that is neither number nor string.
ExpiresInFailure ==
    /\ GoodToken
    /\ \/ /\ tokenResponse.body.expires_in.type = "string"
          /\ ~IsNumeral(tokenResponse.body.expires_in.chars)
       \/ tokenResponse.body.expires_in.type \in {"null", "bool", "object", "array"}

\* C30: with a valid access_token, parseToken refuses an expires_in that is
\* a non-numeric string or the empty string, both with the conversion
\* error, and an expires_in of any type other than number or string with
\* the unexpected-type error; the fetch fails with a parse error and the
\* load stores nothing.
C30_ExpiresInErrors ==
    /\ [](ExpiresInFailure =>
            LET body == tokenResponse.body
                info == parseToken(body)
            IN  /\ info.err # Nil
                /\ tokenInfo.err.msg = "parse token"
                /\ tokenInfo.err.cause = info.err
                /\ body.expires_in.type = "string" =>
                      /\ info.err = "error converting expires_in field from string to int"
                      /\ Atoi(body.expires_in.chars).err = Atoi(<<>>).err
                      /\ info = parseToken([body EXCEPT !.expires_in = JString(<<>>)])
                      /\ info = parseToken([body EXCEPT !.expires_in =
                                                        JString(<<"T", "T", "T">>)])
                /\ body.expires_in.type # "string" =>
                      info.err = "unexpected type for expires_in field in token response")
    /\ [][(~Loaded /\ ExpiresInFailure') => EntryKept]_vars

\* C30 witness: {"access_token":"abc","expires_in":""} failed with the
\* conversion error and nothing was stored.
C30_Witness ==
    /\ ExpiresInFailure
    /\ tokenResponse.body.access_token = JString(<<"a", "b", "c">>)
    /\ tokenResponse.body.expires_in = JString(<<>>)
    /\ tokenInfo.err.cause = "error converting expires_in field from string to int"
    /\ ~cache[StaticClientID].present

\* {"access_token":"abc","expires_in":"TTT"} failed the same way.
C30_NonNumericWitness ==
    /\ ExpiresInFailure
    /\ tokenResponse.body.expires_in = JString(<<"T", "T", "T">>)
    /\ tokenInfo.err.cause = "error converting expires_in field from string to int"
    /\ ~cache[StaticClientID].present

\* {"access_token":"abc","expires_in":true} failed for its type.
C30_TypeWitness ==
    /\ ExpiresInFailure
    /\ tokenResponse.body.expires_in = JBool
    /\ tokenInfo.err.cause = "unexpected type for expires_in field in token response"
    /\ ~cache[StaticClientID].present

\* ------------------------------------------------- secrets and identities

\* The credentials getToken resolved for a call: from the headers when
\* header resolution is on, the static ones otherwise.
ResolvedCredentials(cl) ==
    IF options.GetCredentialsFromRequestHeader
    THEN getCredentials(cl.hdr)
    ELSE [id |-> StaticClientID, secret |-> StaticClientSecret]

\* The access tokens the token endpoint has issued so far.
IssuedTokens == { [id |-> id, gen |-> g] : id \in Ids, g \in 0..MaxRevocations }

\* C31: a cache entry holds an access token the token endpoint issued, an
\* expiry and nothing else: no field of it is a secret.  An entry is
\* written only by the load of its key, and the credentials of that load
\* are those of the call that missed and started it, handed to the fetch
\* in the Info of its group.Get (Ctx1, Ctx2) when header resolution is on.
C31_SecretNotCached ==
    /\ [](\A k \in Keys :
            /\ DOMAIN cache[k] = {"present", "value", "expire", "at", "ttl"}
            /\ DOMAIN cache[k].value = {"id", "gen"}
            /\ cache[k].present =>
                  /\ cache[k].value \in IssuedTokens
                  /\ cache[k].value.gen <= gen[cache[k].value.id]
                  /\ tokenCount[cache[k].value.id] >= 1
                  /\ exchanges.ok >= 1)
    /\ [][\A k \in Keys :
            (cache'[k] # cache[k] /\ cache'[k].present) =>
               /\ flight[k].active /\ ~flight'[k].active
               /\ LET l  == call[flight[k].leader]
                      cr == ResolvedCredentials(l)
                  IN  /\ l.how = "lead" /\ l.pc = "fetch"
                      /\ ClientIDOf(l) = k
                      /\ cache'[k].value.id = cr.id
                      /\ cr.secret = Registered(cr.id)
                      /\ options.GetCredentialsFromRequestHeader =>
                            InfoOf(l) = [set |-> TRUE, Ctx1 |-> cr.id, Ctx2 |-> cr.secret]
                      /\ ~options.GetCredentialsFromRequestHeader =>
                            ~InfoOf(l).set]_vars

\* C31 witness: a call carrying the headers of client b with its secret
\* missed; the entry of key b holds the token issued to b.
C31_Witness ==
    \E c \in Callers :
        /\ options.GetCredentialsFromRequestHeader
        /\ call[c].hdr = [id |-> "b", secret |-> "sb"]
        /\ call[c].how = "lead" /\ call[c].pc \in {"send", "remove", "done"}
        /\ InfoOf(call[c]).Ctx2 = "sb"
        /\ cache["b"].present /\ cache["b"].value = [id |-> "b", gen |-> 0]

\* C32: the eviction that follows a bad-token status seen by a call that
\* resolved one client id leaves the entries of every other client id as
\* they were, so that the next call of another client id is a cache hit.
C32_OtherEntriesKept ==
    [][\A c \in Callers :
         (call[c].pc = "remove" /\ call'[c].pc = "done") =>
            \A k \in Keys \ {ClientIDOf(call[c])} :
               /\ cache'[k] = cache[k]
               /\ CacheHit(k) => (cache'[k].present /\ now < cache'[k].expire)]_vars

\* C33: whatever SoftExpireInSeconds New was given, a stored entry expires
\* no later than the instant of its fetch plus the time-to-live the token
\* endpoint declared.
C33_NotPastHardExpiry ==
    \A k \in Keys :
        cache[k].present => cache[k].expire <= cache[k].at + cache[k].ttl

\* C34: the eviction a call performs after a bad-token status leaves the
\* entry of its client id in place when that entry no longer holds the
\* token the call sent, a newer one having been fetched meanwhile.
C34_NewerEntryKept ==
    [][\A c \in Callers :
         LET k == ClientIDOf(call[c])
         IN  (/\ call[c].pc = "remove" /\ call'[c].pc = "done"
              /\ cache[k].present
              /\ cache[k].value # call[c].accessToken)
               => cache'[k] = cache[k]]_vars

\* C35: the token a call holds after getToken, and the one in the
\* Authorization header of every request it sent to the resource server, is
\* a token the token endpoint issued to the client id the call resolved,
\* in answer to a token request made with that client id.
C35_TokenOfResolvedID ==
    \A c \in Callers :
        LET id == ClientIDOf(call[c])
        IN  /\ (call[c].pc \in {"send", "remove", "done"} /\ call[c].tokErr = Nil
                   /\ call[c].how # "none") =>
                  /\ call[c].accessToken \in IssuedTokens
                  /\ call[c].accessToken.id = id
                  /\ call[c].out.ClientID = id
                  /\ tokenCount[id] >= 1
            /\ call[c].req.Authorization.scheme = "Bearer" =>
                  /\ call[c].req.Authorization.token = call[c].accessToken
                  /\ call[c].req.Authorization.token.id = id
            /\ call[c].sent > 0 =>
                  /\ call[c].req.Authorization.scheme = "Bearer"
                  /\ call[c].req.Authorization.token.id = id

\* C35 witness: with both clients' tokens cached, a call that joined the
\* load of client b sent b's token, while the static client's token is a's.
C35_Witness ==
    \E c \in Callers :
        /\ ClientIDOf(call[c]) = "b" /\ call[c].how = "join"
        /\ call[c].sent = 1
        /\ call[c].req.Authorization = Bearer([id |-> "b", gen |-> 0])
        /\ cache["b"].present

\* A call for b sent b's token while a's token was in the cache.
C35_TwoClientsWitness ==
    \E c \in Callers :
        /\ ClientIDOf(call[c]) = "b" /\ call[c].sent = 1
        /\ call[c].req.Authorization.token.id = "b"
        /\ cache["a"].present /\ cache["a"].value.id = "a"

\* C36: the Output of a returned call has exactly one of Response and
\* Error: the error alone when getToken failed or the transport failed, the
\* response alone whenever one was received, whatever its status and
\* whether or not group.Remove failed.
C36_ResponseXorError ==
    \A c \in Callers :
        call[c].pc = "done" =>
            /\ (call[c].out.Response # NoResponse) # (call[c].out.Error # Nil)
            /\ call[c].tokErr # Nil =>
                  (call[c].out.Error = call[c].tokErr /\ call[c].out.Response = NoResponse)
            /\ (call[c].tokErr = Nil /\ call[c].sent = 0) =>
                  (call[c].out.Error \in {"SendError", "ContextCanceled"}
                     /\ call[c].out.Response = NoResponse)
            /\ call[c].sent > 0 =>
                  (call[c].out.Response = call[c].resp /\ call[c].resp # NoResponse
                     /\ call[c].out.Error = Nil)

\* C36 witness: a call returned the 401 it received, and no error, although
\* group.Remove failed.
C36_Witness ==
    \E c \in Callers :
        /\ call[c].pc = "done" /\ call[c].sent = 1 /\ call[c].removeErr
        /\ call[c].out.Response = StatusUnauthorized /\ call[c].out.Error = Nil
        /\ \E d \in Callers \ {c} :
              /\ call[d].pc = "done" /\ call[d].out.Response = NoResponse
              /\ call[d].out.Error # Nil

\* C37: a fetch that succeeded returned a time-to-live of zero or more,
\* whatever expires_in the token endpoint sent, and the entry stored from
\* it expires no earlier than the fetch time less the soft-expire margin.
C37_NonNegativeTTL ==
    (Loaded /\ tokenInfo.err = NoError) =>
        /\ tokenInfo.expiresIn >= 0
        /\ cache[StaticClientID].present
        /\ cache[StaticClientID].ttl >= 0
        /\ cache[StaticClientID].expire
              >= cache[StaticClientID].at - options.SoftExpireInSeconds

\* C38: with GetCredentialsFromRequestHeader off, the credential headers
\* of the request are neither read nor removed, whatever the forwarding
\* options: the call resolves the static client id, passes no Info, holds
\* the static client's token, and its request keeps both headers as the
\* caller set them, also in what the resource server receives.
C38_HeadersUntouched ==
    ~options.GetCredentialsFromRequestHeader =>
        \A c \in Callers :
            call[c].pc # "idle" =>
                /\ ClientIDOf(call[c]) = StaticClientID
                /\ InfoOf(call[c]) = NoInfo
                /\ call[c].req.id = call[c].given.id
                /\ call[c].req.secret = call[c].given.secret
                /\ (call[c].pc \in {"send", "remove", "done"} /\ call[c].tokErr = Nil) =>
                      /\ call[c].accessToken.id = StaticClientID
                      /\ call[c].out.ClientID = StaticClientID

\* C38 witness: header resolution off, both forwarding options set against
\* forwarding; the resource server received the request with the headers
\* of client b and its secret, and the token of the static client.
C38_Witness ==
    \E c \in Callers :
        /\ ~options.GetCredentialsFromRequestHeader
        /\ ~options.ForwardHeaderClientSecret
        /\ options.PreventForwardingHeaderClientID
        /\ call[c].sent = 1
        /\ call[c].given.id = "b" /\ call[c].given.secret = "sb"
        /\ call[c].req.id = "b" /\ call[c].req.secret = "sb"
        /\ call[c].req.Authorization = Bearer([id |-> StaticClientID, gen |-> 0])

\* Caller c is inside DoWithOutput.
Running(c) == call[c].pc \in {"fetch", "wait", "send", "remove"}

\* Caller c has returned, with a response or with an error.
Returned(c) ==
    /\ call[c].pc = "done"
    /\ call[c].out.Response # NoResponse \/ call[c].out.Error # Nil

\* C39: every call that has started returns a response or an error, and
\* the step that completes the load of a key releases every caller waiting
\* on it, with the token when the load succeeded and with the error when it
\* failed.
C39_EveryCallReturns ==
    /\ \A c \in Callers : Running(c) ~> Returned(c)
    /\ [][\A c \in Callers :
            LET k == ClientIDOf(call[c])
            IN  (call[c].pc = "wait" /\ flight[k].active /\ ~flight'[k].active) =>
                   /\ call'[c].pc \in {"send", "done"}
                   /\ call'[c].pc = "send" <=> cache'[k].present
                   /\ call'[c].pc = "done" => call'[c].out.Error # Nil]_vars

\* C39 witness: a caller that waited on a load which failed has returned
\* with the error of the load.
C39_Witness ==
    \E c \in Callers :
        /\ call[c].how = "join" /\ Returned(c)
        /\ call[c].tokErr # Nil /\ call[c].out.Error = call[c].tokErr

\* A caller that waited on a load which succeeded has returned a response.
C39_ReleasedWitness ==
    \E c \in Callers :
        /\ call[c].how = "join" /\ Returned(c)
        /\ call[c].out.Response = StatusOK

====
